---- MODULE Spec2Model ----
(***************************************************************************)
(* auxmark: the scan / preprocess / rewrite pipeline of                    *)
(* tools/auxmark/processor.py and the rate-limited worker pool of          *)
(* tools/auxmark/worker.py.                                                *)
(*                                                                         *)
(* A document path is a record [dir, stem, suffix] (pathlib's parent,      *)
(* stem and suffix).  A line is a sequence of tokens: the text read from   *)
(* storage followed by one token per rewrite a detector applied to it.     *)
(* Detectors are plugins: what probe, preprocess and postprocess answer is *)
(* chosen nondeterministically from small sets, a raised exception being   *)
(* one of the answers.                                                     *)
(***************************************************************************)
EXTENDS Integers, Sequences, FiniteSets, TLC

\* ------------------------------------------------------------------ bounds
MaxTime == 2        \* last instant of the clock
MaxWorkers == 2     \* largest worker count tried

\* ------------------------------------------------------- program constants
rate_limit_delay == 1

\* --------------------------------------------------------------- detectors
Modules == <<"M1", "M2">>

ModuleNames == {Modules[i] : i \in 1..Len(Modules)}

\* core.py Action
IGNORE == "IGNORE"
TAG == "TAG"
TAG_WITH_PREPROCESS_ONLY == "TAG_WITH_PREPROCESS_ONLY"
TAG_WITH_PREPROCESS_AND_POSTPROCESS == "TAG_WITH_PREPROCESS_AND_POSTPROCESS"
EXPAND == "EXPAND"
RAISE == "RAISE"

Action == {IGNORE, TAG, TAG_WITH_PREPROCESS_ONLY,
           TAG_WITH_PREPROCESS_AND_POSTPROCESS, EXPAND}

\* ------------------------------------------------------------------- paths
MkPath(dir, stem, suffix) == [dir |-> dir, stem |-> stem, suffix |-> suffix]

\* No path is taken for a bundle's index.md
IsIndexMdNever(p) == FALSE

\* file_path.name == 'index.md'
IsIndexMd(p) == p.stem = "index" /\ p.suffix = "md"

\* file_path.parent / file_path.stem / 'index.md'
new_file_of(p) == MkPath(Append(p.dir, p.stem), "index", "md")

\* file_path.with_suffix('.tmp')
with_suffix_tmp(p) == [p EXCEPT !.suffix = "tmp"]

\* ------------------------------------------------------------------- lines
\* module.regex.search(line): the detectors' coarse patterns; M1 looks for
\* an x in the line, M2 for a y; the line p has neither.
RegexSearch(m, line) ==
    \/ m = "M1" /\ line[1] \in {"x", "xy"}
    \/ m = "M2" /\ line[1] \in {"xy"}

\* ---------------------------------------------------------------- metadata
\* A metadata dict: keys is the set of keys present.
NoUrl == [empty |-> TRUE, netloc |-> ""]
Url(host) == [empty |-> FALSE, netloc |-> host]

Meta(keys, images, url) ==
    [keys |-> keys, images |-> images, url |-> url]

EmptyMeta == Meta({}, <<>>, NoUrl)
MetaImage(host) == Meta({"images"}, <<Url(host)>>, NoUrl)
MetaTweet == Meta({"tweet_id"}, <<>>, NoUrl)
MetaUrl(u) == Meta({"url"}, <<>>, u)

LOCAL_KEY == "__local__"

extract_domain_from_metadata(md) ==
    LET url == IF "images" \in md.keys
               THEN (IF Len(md.images) > 0 THEN md.images[1] ELSE NoUrl)
               ELSE IF "tweet_id" \in md.keys THEN Url("publish.x.com")
               ELSE IF "url" \in md.keys THEN md.url
               ELSE NoUrl
    IN IF ~url.empty /\ url.netloc # "" THEN url.netloc ELSE LOCAL_KEY

extract_domain_from_job(job) == extract_domain_from_metadata(job.metadata)

\* What a probe may answer: an action with its metadata, or an exception.
ProbeResults ==
    { [action |-> IGNORE, metadata |-> EmptyMeta],
      [action |-> TAG, metadata |-> EmptyMeta],
      [action |-> TAG_WITH_PREPROCESS_ONLY, metadata |-> EmptyMeta],
      [action |-> TAG_WITH_PREPROCESS_AND_POSTPROCESS, metadata |-> MetaImage("h1")],
      [action |-> EXPAND, metadata |-> MetaImage("h1")],
      [action |-> RAISE, metadata |-> EmptyMeta] }

\* ------------------------------------------------------------------- state
VARIABLES
    fs,                 \* storage: path -> line sequence, for existing files
    fs0,                \* storage when the run started
    input_files,        \* the list handed to process_all
    dry_run,            \* Processor.dry_run
    max_workers,        \* Processor.max_workers
    pc,                 \* position of the main thread
    files_to_process,   \* Processor.files_to_process (the worklist)
    expanded_files,     \* Processor.expanded_files
    processed_count,    \* process_all's processed_count
    cur,                \* locals of the process_file call in progress
    jobs,               \* module.jobs, per module
    postprocess_lines,  \* module.postprocess_lines, per module
    probe_memo,         \* what probe answered, per (module, path, line_no)
    probe_log,          \* the probe calls made, each with the index of its scan
    scan_log,           \* paths whose lines were read by process_file
    promotions,         \* successful moves, [old, new], at: how many paths
                        \* had been taken from the worklist
    requeue_log,        \* paths appended to the worklist by process_file
    pop_log,            \* paths taken from the worklist, and what became of them
    expand_log,         \* the calls of expand_file, [file_path, outcome]
    tasks,              \* the pool's work items, in submission order
    pool,               \* "none", "open" or "shutdown"
    domain_locks,       \* RateLimitedWorkerPool._domain_locks: holder per domain
    last_request_time,  \* RateLimitedWorkerPool._last_request_time
    now,                \* time.time()
    completed,          \* run_preprocessing's completed
    failed,             \* run_preprocessing's failed
    collected,          \* number of futures whose result was taken
    preprocess_log,     \* the preprocess calls made: [task, domain, start]
    post_files,         \* run_postprocessing's files_to_process, in dict order
    post_idx,           \* index of the document being rewritten
    rw,                 \* locals of the rewrite of one document
    rewrites,           \* path -> line sequence the rewrite replaced it with
    post_log,           \* how the rewrite of each document ended
    post_calls,         \* the postprocess calls made, in order
    run,                \* 1, or 2 for a real run that follows a dry run
    dry_counts,         \* the counts of the dry run that came first
    img,                \* one line handled by the image detector
    dom,                \* one metadata dict given to extract_domain_from_job
    pass,               \* which rewrite pass over the same TaggedLines
    cli,                \* main's args.module, until the filter has read it
    lk                  \* the pool's threads, locks and maps, statement by statement

scanVars == <<files_to_process, expanded_files, processed_count, cur, jobs,
              postprocess_lines, probe_memo, probe_log, scan_log,
              promotions, requeue_log, pop_log, expand_log>>

poolVars == <<tasks, pool, domain_locks, last_request_time, now, completed,
              failed, collected, preprocess_log>>

postVars == <<post_files, post_idx, rw, rewrites, post_log, post_calls>>

confVars ==
    <<fs0, input_files, dry_run, max_workers, run, dry_counts, img, dom,
      pass, cli, lk>>

vars == <<fs, pc, scanVars, poolVars, postVars, confVars>>

NoPath == MkPath(<<>>, "", "")

NoCur == [file_path |-> NoPath, lines |-> <<>>, line_no |-> 0, mi |-> 1,
          file_needs_expand |-> FALSE, new_file |-> NoPath]

\* The corpora explored, each an input list with the stored documents:
\* one document with a line that both patterns select; one document with
\* a plain line and a line that one pattern selects; two documents with a
\* line that one pattern selects, in either order; a document listed
\* together with the bundle it would be promoted to; a document listed twice.
DocA == MkPath(<<>>, "a", "md")

DocAIndex == MkPath(<<"a">>, "index", "md")

DocB == MkPath(<<>>, "b", "md")

Storage(docs, contents) ==
    [p \in {docs[i] : i \in 1..Len(docs)} |->
        contents[CHOOSE i \in 1..Len(docs) : docs[i] = p]]

Corpus(docs, contents) == [input |-> docs, fs |-> Storage(docs, contents)]

Corpora ==
    { Corpus(<<DocA>>, << <<(<<"xy">>)>> >>),
      Corpus(<<DocA>>, << <<(<<"p">>), (<<"x">>)>> >>),
      Corpus(<<DocA, DocB>>, << <<(<<"x">>)>>, <<(<<"x">>)>> >>),
      Corpus(<<DocB, DocA>>, << <<(<<"x">>)>>, <<(<<"x">>)>> >>),
      Corpus(<<DocA, DocAIndex>>, << <<(<<"x">>)>>, <<(<<"x">>)>> >>),
      Corpus(<<DocA, DocA>>, << <<(<<"x">>)>>, <<(<<"x">>)>> >>) }

Range(q) == {q[i] : i \in 1..Len(q)}

\* fs with the file p holding content
FsWrite(f, p, content) ==
    [q \in DOMAIN f \cup {p} |-> IF q = p THEN content ELSE f[q]]

\* fs without the file p
FsRemove(f, p) == [q \in DOMAIN f \ {p} |-> f[q]]

\* git mv old new
FsMove(f, old, new) ==
    IF old = new THEN f ELSE FsRemove(FsWrite(f, new, f[old]), old)

\* ---------------------------------------------------------------- scanning
\* A purge that keeps no entry at all
KeptByPurgeNever(e, file_path) == FALSE

\* processor.py 208 and 209: the condition of the two comprehensions, "if
\* j.file_path != file_path"
KeptByPurge(e, file_path) == e.file_path # file_path

\* The purge forgotten: the list is kept as it is
PurgedNothing(list, file_path) == list

\* processor.py 206-210: what a module keeps of a list after the purge
Purged(list, file_path) ==
    SelectSeq(list, LAMBDA e : KeptByPurge(e, file_path))

\* A dispatch that also makes a Job for a line tagged for the rewrite only
JobsAfterDispatchForTag(list, action, job) ==
    IF action \in {TAG, TAG_WITH_PREPROCESS_ONLY,
                   TAG_WITH_PREPROCESS_AND_POSTPROCESS}
    THEN Append(list, job) ELSE list

\* processor.py 165-186: module.jobs after the dispatch of one probe result
JobsAfterDispatch(list, action, job) ==
    IF action \in {TAG_WITH_PREPROCESS_ONLY, TAG_WITH_PREPROCESS_AND_POSTPROCESS}
    THEN Append(list, job) ELSE list

\* A dispatch that also tags the lines a detector ignores
LinesAfterDispatchTagsIgnored(list, action, pp) ==
    IF action \in {IGNORE, TAG, TAG_WITH_PREPROCESS_AND_POSTPROCESS}
    THEN Append(list, pp) ELSE list

\* processor.py 154-194: module.postprocess_lines after the dispatch
LinesAfterDispatch(list, action, pp) ==
    IF action \in {TAG, TAG_WITH_PREPROCESS_AND_POSTPROCESS}
    THEN Append(list, pp) ELSE list

\* A move that overwrites its destination
GitMvForced(f, old, new) == old \in DOMAIN f

\* processor.py 94-99, git mv old new: it can succeed when the source
\* exists and the destination does not
GitMvCanSucceed(f, old, new) == old \in DOMAIN f /\ new \notin DOMAIN f

\* expand_file without its dry-run return: the move is attempted anyway
ExpandOutcomesIgnoringDryRun(f, file_path, dry) ==
    IF IsIndexMd(file_path) THEN {"refused"}
    ELSE IF GitMvCanSucceed(f, file_path, new_file_of(file_path))
         THEN {"moved", "failed"}
         ELSE {"failed"}

\* processor.py 65-112, expand_file: the ways the call can end.  "refused":
\* already index.md; "intent": dry run, only reported; "moved": git mv
\* succeeded; "failed": mkdir or git mv failed.
ExpandOutcomes(f, file_path, dry) ==
    IF IsIndexMd(file_path) THEN {"refused"}
    ELSE IF dry THEN {"intent"}
    ELSE IF GitMvCanSucceed(f, file_path, new_file_of(file_path))
         THEN {"moved", "failed"}
         ELSE {"failed"}

\* Every call of expand_file taken to have returned a path
ReturnsPathAlways(outcome) == TRUE

\* processor.py 77, 87, 105 and 112: expand_file returns a path from its
\* dry-run branch and after the move, and None when it refuses or fails
ReturnsPath(outcome) == outcome \in {"intent", "moved"}

\* A run taken for a real one whatever its mode
NotDryRunAlways(dry) == TRUE

\* processor.py 204: "not self.dry_run"
NotDryRun(dry) == ~dry

\* Every real call of expand_file taken for a success
RequeueAfterAnyOutcome(outcome, dry) == ~dry

\* processor.py 204: the value expand_file returned is a path and the
\* run is real
RequeueAfter(outcome, dry) == ReturnsPath(outcome) /\ NotDryRun(dry)

EmptyLists == [m \in ModuleNames |-> <<>>]

NoRw == [file_path |-> NoPath, lines |-> <<>>, new_lines |-> <<>>,
         line |-> <<>>, line_no |-> 0, k |-> 1, written |-> 0]

NoCounts == [scanned |-> 0, jobs |-> 0, lines |-> 0]

\* No --module option, or the option already handled
NoCli == [given |-> FALSE, requested |-> {}]

\* No pool is followed statement by statement
NoLk == [pool |-> "none", workers |-> 0, th |-> <<>>, guard |-> 0,
         locks |-> <<>>, created |-> <<>>, held |-> <<>>, last |-> <<>>]

\* The first rewrite pass
NoPass == [n |-> 1, fs1 |-> <<>>, updated |-> {}]

\* No metadata is given to extract_domain_from_job
NoDom == [pc |-> "idle", metadata |-> EmptyMeta, key |-> ""]

\* No line is given to the image detector
NoImg == [pc |-> "idle", file_path |-> NoPath, line |-> <<>>,
          action |-> "none", images |-> <<>>, probed |-> <<>>,
          job_result |-> "none", read |-> <<>>, result |-> <<>>]

\* State after Processor.__init__ and the first statement of process_all,
\* for a run with the given mode
\* State after Processor.__init__ (processor.py 30-63)
NewProcessor ==
    /\ expanded_files = {}
    /\ processed_count = 0
    /\ cur = NoCur
    /\ jobs = EmptyLists
    /\ postprocess_lines = EmptyLists
    /\ probe_memo = <<>>
    /\ probe_log = <<>>
    /\ scan_log = <<>>
    /\ promotions = <<>>
    /\ requeue_log = <<>>
    /\ pop_log = <<>>
    /\ expand_log = <<>>
    /\ tasks = <<>>
    /\ pool = "none"
    /\ domain_locks = <<>>
    /\ last_request_time = <<>>
    /\ now = 0
    /\ completed = 0
    /\ failed = 0
    /\ collected = 0
    /\ preprocess_log = <<>>
    /\ post_files = <<>>
    /\ post_idx = 1
    /\ rw = NoRw
    /\ rewrites = <<>>
    /\ post_log = <<>>
    /\ post_calls = <<>>
    /\ run = 1
    /\ dry_counts = NoCounts
    /\ img = NoImg
    /\ dom = NoDom
    /\ pass = NoPass
    /\ lk = NoLk

InitRun(input, dry) ==
    /\ dry_run = dry
    /\ input_files = input
    /\ pc = "scan"
    /\ files_to_process = input
    /\ cli = NoCli
    /\ NewProcessor

Init ==
    \E c \in Corpora :
        /\ fs = c.fs
        /\ fs0 = fs
        /\ max_workers \in 1..MaxWorkers
        /\ \E dry \in BOOLEAN : InitRun(c.input, dry)

\* process_file returns: back to the loop of process_all (366-369)
EndFile ==
    /\ pc' = "scan"
    /\ cur' = NoCur
    /\ processed_count' = processed_count + 1

\* No path is skipped: each one taken from the worklist is opened
SkippedNever(file_path, expanded) == FALSE

\* processor.py 125-127: a path moved by an expansion is skipped before it
\* is opened
Skipped(file_path, expanded) == file_path \in expanded

\* processor.py 125-136: what process_file does with the path before its
\* loop: "skipped" without opening it, "unreadable" when open or readlines
\* fails, "read"
HowRead(f, file_path, expanded) ==
    IF Skipped(file_path, expanded) THEN "skipped"
    ELSE IF file_path \notin DOMAIN f THEN "unreadable"
    ELSE "read"

\* processor.py 366-369 and 125-136: pop the next path; skip it when it was
\* moved by an expansion or cannot be read, else read its lines
PopFile ==
    /\ pc = "scan"
    /\ files_to_process # <<>>
    /\ LET file_path == Head(files_to_process) IN
        /\ files_to_process' = Tail(files_to_process)
        /\ pop_log' = Append(pop_log,
                [file_path |-> file_path,
                 how |-> HowRead(fs, file_path, expanded_files)])
        /\ IF HowRead(fs, file_path, expanded_files) # "read"
           THEN /\ EndFile
                /\ UNCHANGED scan_log
           ELSE /\ cur' = [NoCur EXCEPT !.file_path = file_path,
                                        !.lines = fs[file_path]]
                /\ pc' = IF Len(fs[file_path]) = 0 THEN "expand" ELSE "probe"
                /\ scan_log' = Append(scan_log, file_path)
                /\ UNCHANGED processed_count
    /\ UNCHANGED <<fs, expanded_files, jobs, postprocess_lines, probe_memo,
                   probe_log,
                   promotions, requeue_log, expand_log, poolVars, postVars,
                   confVars>>

\* A loop that gives each line to the first detector only
AdvanceToNextLine ==
    IF cur.line_no + 1 < Len(cur.lines)
    THEN [pc |-> "probe", line_no |-> cur.line_no + 1, mi |-> 1]
    ELSE [pc |-> "expand", line_no |-> cur.line_no, mi |-> cur.mi]

\* The (line, module) pair after the current one, or the end of the scan
Advance ==
    IF cur.mi < Len(Modules)
    THEN [pc |-> "probe", line_no |-> cur.line_no, mi |-> cur.mi + 1]
    ELSE IF cur.line_no + 1 < Len(cur.lines)
         THEN [pc |-> "probe", line_no |-> cur.line_no + 1, mi |-> 1]
         ELSE [pc |-> "expand", line_no |-> cur.line_no, mi |-> cur.mi]

\* processor.py 142-199: one (line, module) pair of the scan loop
ProbeStep ==
    /\ pc = "probe"
    /\ LET line == cur.lines[cur.line_no + 1]
           m == Modules[cur.mi]
           key == <<m, cur.file_path, cur.line_no>>
           nxt == Advance
       IN IF ~RegexSearch(m, line)
          THEN /\ pc' = nxt.pc
               /\ cur' = [cur EXCEPT !.line_no = nxt.line_no, !.mi = nxt.mi]
               /\ UNCHANGED <<jobs, postprocess_lines, probe_memo, probe_log>>
          ELSE \E r \in ProbeResults :
               /\ key \in DOMAIN probe_memo => r = probe_memo[key]
               /\ probe_memo' = [q \in DOMAIN probe_memo \cup {key} |->
                                    IF q = key THEN r ELSE probe_memo[q]]
               /\ probe_log' = Append(probe_log,
                        [module |-> m, file_path |-> cur.file_path,
                         line_no |-> cur.line_no, scan |-> Len(pop_log)])
               /\ IF r.action = RAISE
                  THEN \* nothing catches it before main (main.py 189-194)
                       /\ pc' = "fatal"
                       /\ UNCHANGED <<cur, jobs, postprocess_lines>>
                  ELSE LET job == [file_path |-> cur.file_path,
                                   line_no |-> cur.line_no, line |-> line,
                                   module_name |-> m, metadata |-> r.metadata]
                           pp == [file_path |-> cur.file_path,
                                  line_no |-> cur.line_no, line |-> line,
                                  metadata |-> r.metadata]
                       IN /\ jobs' = [jobs EXCEPT ![m] =
                                        JobsAfterDispatch(@, r.action, job)]
                          /\ postprocess_lines' =
                                [postprocess_lines EXCEPT ![m] =
                                        LinesAfterDispatch(@, r.action, pp)]
                          /\ pc' = nxt.pc
                          /\ cur' = [cur EXCEPT
                                !.line_no = nxt.line_no, !.mi = nxt.mi,
                                !.file_needs_expand = @ \/ r.action = EXPAND]
    /\ UNCHANGED <<fs, files_to_process, expanded_files, processed_count,
                   scan_log, promotions, requeue_log, pop_log, expand_log,
                   poolVars, postVars, confVars>>

\* processor.py 202-204 with expand_file (65-112)
ExpandStep ==
    /\ pc = "expand"
    /\ IF ~cur.file_needs_expand
       THEN /\ EndFile
            /\ UNCHANGED <<fs, expanded_files, promotions, expand_log>>
       ELSE \E outcome \in ExpandOutcomes(fs, cur.file_path, dry_run) :
            LET new_file == new_file_of(cur.file_path) IN
            /\ expand_log' = Append(expand_log,
                    [file_path |-> cur.file_path, outcome |-> outcome])
            /\ IF outcome = "moved"
               THEN /\ fs' = FsMove(fs, cur.file_path, new_file)
                    /\ expanded_files' = expanded_files \cup {cur.file_path}
                    /\ promotions' = Append(promotions,
                            [old |-> cur.file_path, new |-> new_file,
                             at |-> Len(pop_log)])
               ELSE UNCHANGED <<fs, expanded_files, promotions>>
            /\ IF RequeueAfter(outcome, dry_run)
               THEN /\ pc' = "purge"
                    /\ cur' = [cur EXCEPT !.new_file = new_file]
                    /\ UNCHANGED processed_count
               ELSE EndFile
    /\ UNCHANGED <<files_to_process, jobs, postprocess_lines, probe_memo,
                   probe_log,
                   scan_log, requeue_log, pop_log, poolVars, postVars,
                   confVars>>

\* processor.py 206-210: discard the jobs and lines of the old path
PurgeStep ==
    /\ pc = "purge"
    /\ jobs' = [m \in ModuleNames |-> Purged(jobs[m], cur.file_path)]
    /\ postprocess_lines' =
            [m \in ModuleNames |-> Purged(postprocess_lines[m], cur.file_path)]
    /\ pc' = "requeue"
    /\ UNCHANGED <<fs, files_to_process, expanded_files, processed_count, cur,
                   probe_memo, probe_log, scan_log, promotions, requeue_log,
                   pop_log, expand_log, poolVars, postVars, confVars>>

\* The new path put at the front of the worklist
RequeuedFirst(list, new_file) == <<new_file>> \o list

\* processor.py 213: requeue the new path
Requeued(list, new_file) == Append(list, new_file)

RequeueStep ==
    /\ pc = "requeue"
    /\ files_to_process' = Requeued(files_to_process, cur.new_file)
    /\ requeue_log' = requeue_log \o SubSeq(files_to_process',
                            Len(files_to_process) + 1, Len(files_to_process'))
    /\ EndFile
    /\ UNCHANGED <<fs, expanded_files, jobs, postprocess_lines, probe_memo,
                   probe_log,
                   scan_log, promotions, pop_log, expand_log, poolVars,
                   postVars, confVars>>

\* processor.py 366-369: the scan loop of process_all alone, run to its
\* end: "while self.files_to_process: pop(0); process_file"
NextScan ==
    \/ PopFile
    \/ ProbeStep
    \/ ExpandStep
    \/ PurgeStep
    \/ RequeueStep

\* The corpora of the whole run, and one more: a document whose line one
\* detector can tag and the other can ask to promote, listed after a
\* document of one tagged line.
ScanCorpora ==
    Corpora \cup {Corpus(<<DocB, DocA>>, << <<(<<"x">>)>>, <<(<<"xy">>)>> >>)}

InitScan ==
    \E c \in ScanCorpora :
        /\ fs = c.fs
        /\ fs0 = fs
        /\ max_workers \in 1..MaxWorkers
        /\ \E dry \in BOOLEAN : InitRun(c.input, dry)

SpecScan == InitScan /\ [][NextScan]_vars

\* The loop runs on the main thread, and every detector call ends: a step
\* of the loop that can be taken is taken.
SpecScanLive == SpecScan /\ WF_vars(NextScan)

\* ----------------------------------------------------------- preprocessing
RECURSIVE Flatten(_, _)
\* The entries of the modules' lists, module after module (the loops
\* "for module in self.modules: for x in module.<list>")
Flatten(lists, i) ==
    IF i > Len(Modules) THEN <<>>
    ELSE [n \in 1..Len(lists[Modules[i]]) |->
             [module |-> Modules[i], entry |-> lists[Modules[i]][n]]]
         \o Flatten(lists, i + 1)

AllJobs == Flatten(jobs, 1)

AllLines == Flatten(postprocess_lines, 1)

\* processor.py 221, total_jobs
total_jobs == Len(AllJobs)

\* processor.py 371-374 and 221-248: scanning is over; run_preprocessing
\* returns at once without jobs, only reports them in a dry run, and
\* creates the pool otherwise
StartPreprocessing ==
    /\ pc = "scan"
    /\ files_to_process = <<>>
    /\ IF total_jobs = 0
       THEN /\ pc' = "post"
            /\ UNCHANGED <<completed, pool>>
       ELSE IF dry_run
            THEN /\ completed' = total_jobs
                 /\ pc' = "post"
                 /\ UNCHANGED pool
            ELSE /\ pool' = "open"
                 /\ pc' = "submit"
                 /\ UNCHANGED completed
    /\ UNCHANGED <<fs, scanVars, tasks, domain_locks, last_request_time, now,
                   failed, collected, preprocess_log, postVars, confVars>>

\* processor.py 253-262 and worker.py 165-186: submit the next job
SubmitJob ==
    /\ pc = "submit"
    /\ pool = "open"
    /\ LET k == Len(tasks) + 1
           e == AllJobs[k]
       IN /\ tasks' = Append(tasks,
                [module |-> e.module, job |-> e.entry,
                 domain |-> extract_domain_from_job(e.entry),
                 st |-> "queued", result |-> "none", wake |-> 0,
                 calls |-> 0])
          /\ pc' = IF k = Len(AllJobs) THEN "collect" ELSE "submit"
    /\ UNCHANGED <<fs, scanVars, pool, domain_locks, last_request_time, now,
                   completed, failed, collected, preprocess_log, postVars,
                   confVars>>

\* processor.py 253-257: the lines "[m] Processing N jobs..." logged so far.
\* The line for a module is logged inside the with block, just before the
\* module's first job is submitted; the dry-run branch (235-241) returns
\* before the with block.
ProcessingLogged ==
    {[module |-> m, n |-> Len(jobs[m])] :
        m \in {tasks[i].module : i \in 1..Len(tasks)}}

TaskIds == 1..Len(tasks)

\* Work items a worker thread is executing
Active == {i \in TaskIds : tasks[i].st \notin {"queued", "done"}}

SetSt(i, st) == [tasks EXCEPT ![i].st = st]

\* A pool that starts a thread for every work item
CanStartUnbounded(i) ==
    /\ tasks[i].st = "queued"
    /\ \A j \in TaskIds : j < i => tasks[j].st # "queued"

\* worker.py 89 (ThreadPoolExecutor): a free worker thread takes the oldest
\* queued work item
CanStart(i) ==
    /\ tasks[i].st = "queued"
    /\ \A j \in TaskIds : j < i => tasks[j].st # "queued"
    /\ Cardinality(Active) < max_workers

StartTask(i) ==
    /\ CanStart(i)
    /\ tasks' = SetSt(i, "get_lock")
    /\ UNCHANGED <<fs, pc, scanVars, pool, domain_locks, last_request_time,
                   now, completed, failed, collected, preprocess_log,
                   postVars, confVars>>

\* worker.py 99-112, _get_domain_lock: the lock of the domain, created on
\* first use (0: nobody holds it)
LocksAfterGet(locks, domain) ==
    IF domain \in DOMAIN locks THEN locks
    ELSE [d \in DOMAIN locks \cup {domain} |->
             IF d = domain THEN 0 ELSE locks[d]]

GetDomainLock(i) ==
    /\ tasks[i].st = "get_lock"
    /\ domain_locks' = LocksAfterGet(domain_locks, tasks[i].domain)
    /\ tasks' = SetSt(i, "acquire")
    /\ UNCHANGED <<fs, pc, scanVars, pool, last_request_time, now, completed,
                   failed, collected, preprocess_log, postVars, confVars>>

\* A lock that never blocks
LockAlwaysFree(locks, domain) == TRUE

\* worker.py 152, "with lock": the lock can be taken
LockFree(locks, domain) == locks[domain] = 0

AcquireLock(i) ==
    /\ tasks[i].st = "acquire"
    /\ LockFree(domain_locks, tasks[i].domain)
    /\ domain_locks' = [domain_locks EXCEPT ![tasks[i].domain] = i]
    /\ tasks' = SetSt(i, "wait")
    /\ UNCHANGED <<fs, pc, scanVars, pool, last_request_time, now, completed,
                   failed, collected, preprocess_log, postVars, confVars>>

\* worker.py 121-130, _wait_for_rate_limit: the instant until which the
\* caller sleeps (t itself when it does not sleep)
WakeTime(last, domain, t) ==
    IF domain \in DOMAIN last /\ t - last[domain] < rate_limit_delay
    THEN t + (rate_limit_delay - (t - last[domain]))
    ELSE t

WaitForRateLimit(i) ==
    /\ tasks[i].st = "wait"
    /\ tasks' = [tasks EXCEPT ![i].st = "sleep",
                    ![i].wake = WakeTime(last_request_time, tasks[i].domain, now)]
    /\ UNCHANGED <<fs, pc, scanVars, pool, domain_locks, last_request_time,
                   now, completed, failed, collected, preprocess_log,
                   postVars, confVars>>

\* worker.py 130 and 157: the sleep is over and preprocess is invoked
CallPreprocess(i) ==
    /\ tasks[i].st = "sleep"
    /\ now >= tasks[i].wake
    /\ tasks' = [tasks EXCEPT ![i].st = "running", ![i].wake = 0,
                                ![i].calls = @ + 1]
    /\ preprocess_log' = Append(preprocess_log,
            [task |-> i, domain |-> tasks[i].domain, start |-> now])
    /\ UNCHANGED <<fs, pc, scanVars, pool, domain_locks, last_request_time,
                   now, completed, failed, collected, postVars, confVars>>

PreprocessResults == {"true", "false", "raised"}

\* A timestamp recorded however the call ended
TimesAfterAnyResult(last, domain, result, t) ==
    [d \in DOMAIN last \cup {domain} |-> IF d = domain THEN t ELSE last[d]]

\* worker.py 159-161: the timestamps after a preprocess call that ended
\* with result at instant t
TimesAfter(last, domain, result, t) ==
    IF result = "raised" THEN last
    ELSE [d \in DOMAIN last \cup {domain} |->
             IF d = domain THEN t ELSE last[d]]

\* worker.py 157-163: preprocess ends; the timestamp is recorded when it
\* returned, and leaving the with block releases the lock either way
FinishPreprocess(i) ==
    /\ tasks[i].st = "running"
    /\ \E result \in PreprocessResults :
        /\ tasks' = [tasks EXCEPT ![i].st = "done", ![i].result = result]
        /\ last_request_time' =
                TimesAfter(last_request_time, tasks[i].domain, result, now)
    /\ domain_locks' = [domain_locks EXCEPT ![tasks[i].domain] = 0]
    /\ UNCHANGED <<fs, pc, scanVars, pool, now, completed, failed, collected,
                   preprocess_log, postVars, confVars>>

\* The clock advances while the pool has work; past MaxTime only as far as
\* a sleeping worker needs
Tick ==
    /\ pool = "open"
    /\ \E i \in TaskIds : tasks[i].st # "done"
    /\ \/ now < MaxTime
       \/ \E i \in TaskIds : tasks[i].st = "sleep" /\ tasks[i].wake > now
    /\ now' = now + 1
    /\ UNCHANGED <<fs, pc, scanVars, tasks, pool, domain_locks,
                   last_request_time, completed, failed, collected,
                   preprocess_log, postVars, confVars>>

\* processor.py 267-269: the tallies after future.result() gave result
CompletedAfter(n, result) == IF result = "true" THEN n + 1 ELSE n

\* A raised exception that is not counted
FailedAfterIgnoringRaised(n, result) == IF result = "false" THEN n + 1 ELSE n

\* processor.py 270-273: a false result and a raised exception
FailedAfter(n, result) == IF result \in {"false", "raised"} THEN n + 1 ELSE n

\* A wait that returns at once
FutureNeverAwaited(ts, k) == TRUE

\* processor.py 266 (future.result()) and worker.py 195 (shutdown with
\* wait=True): the caller is blocked until the work item is done
FutureDone(ts, k) == ts[k].st = "done"

\* processor.py 265-280: take the result of the next future, in submission
\* order; future.result() blocks until the work item is done
CollectResult ==
    /\ pc = "collect"
    /\ LET k == collected + 1 IN
        /\ FutureDone(tasks, k)
        /\ completed' = CompletedAfter(completed, tasks[k].result)
        /\ failed' = FailedAfter(failed, tasks[k].result)
        /\ collected' = k
        /\ pc' = IF k = Len(tasks) THEN "shutdown" ELSE "collect"
    /\ UNCHANGED <<fs, scanVars, tasks, pool, domain_locks, last_request_time,
                   now, preprocess_log, postVars, confVars>>

\* processor.py 244-248 (end of the with block) and worker.py 188-203:
\* shutdown(wait=True) returns when every work item is done.  The pool
\* object is not used again: its maps, the clock only it reads and the log
\* of its calls are cleared.
Shutdown ==
    /\ pc = "shutdown"
    /\ \A i \in TaskIds : FutureDone(tasks, i)
    /\ pool' = "shutdown"
    /\ pc' = "post"
    /\ domain_locks' = <<>>
    /\ last_request_time' = <<>>
    /\ now' = 0
    /\ preprocess_log' = <<>>
    /\ UNCHANGED <<fs, scanVars, tasks, completed, failed, collected,
                   postVars, confVars>>

\* --------------------------------------------------------------- rewriting
RECURSIVE FilesInOrder(_, _)
\* processor.py 297-303: the keys of the dict files_to_process, in insertion
\* order, seen the paths already inserted
FilesInOrder(entries, seen) ==
    IF entries = <<>> THEN <<>>
    ELSE LET f == Head(entries).entry.file_path IN
         IF f \in seen THEN FilesInOrder(Tail(entries), seen)
         ELSE <<f>> \o FilesInOrder(Tail(entries), seen \cup {f})

\* A lookup built from the tagged lines of all documents
LineMapAnyFile(file_path, line_no) ==
    SelectSeq(AllLines, LAMBDA e : e.entry.line_no = line_no)

\* processor.py 326-330: line_map[line_no] of the document file_path, the
\* (module, metadata) pairs that tag the line, in the order of the lists
LineMap(file_path, line_no) ==
    SelectSeq(AllLines, LAMBDA e : /\ e.entry.file_path = file_path
                                   /\ e.entry.line_no = line_no)

\* The rewritten lines written straight into the document
temp_file_in_place(file_path) == file_path

\* processor.py 343
temp_file_of(file_path) == with_suffix_tmp(file_path)

\* processor.py 297-307
StartPostprocessing ==
    /\ pc = "post"
    /\ post_files' = FilesInOrder(AllLines, {})
    /\ post_idx' = 1
    /\ pc' = IF AllLines = <<>> THEN "done" ELSE "post_file"
    /\ UNCHANGED <<fs, scanVars, poolVars, rw, rewrites, post_log, post_calls,
                   confVars>>

\* A loop that ends with the current document
StopAfterThisFile ==
    /\ post_idx' = Len(post_files) + 1
    /\ rw' = NoRw
    /\ pc' = "post_file"

\* The rewrite of the current document is over (rewritten, skipped or
\* failed): next iteration of the loop at processor.py 313
NextPostFile ==
    /\ post_idx' = post_idx + 1
    /\ rw' = NoRw
    /\ pc' = "post_file"

\* The iteration for the current document ends in the given way: "skipped"
\* (dry run, 316-318), "updated" (348), or caught at 350 after a failure
\* of the read, of a postprocess call, of the write or of the replace
PostEnds(outcome) ==
    /\ post_log' = Append(post_log,
            [file_path |-> post_files[post_idx], outcome |-> outcome])
    /\ NextPostFile

\* processor.py 313-323: next document; a dry run only reports it, a failed
\* read is caught at 350
PostFile ==
    /\ pc = "post_file"
    /\ IF post_idx > Len(post_files)
       THEN /\ pc' = "done"
            /\ UNCHANGED <<post_idx, rw, post_log>>
       ELSE LET file_path == post_files[post_idx] IN
            IF dry_run THEN PostEnds("skipped")
            ELSE IF file_path \notin DOMAIN fs THEN PostEnds("read_failed")
            ELSE \/ PostEnds("read_failed")
                 \/ /\ rw' = [NoRw EXCEPT !.file_path = file_path,
                                !.lines = fs[file_path],
                                !.line = IF fs[file_path] = <<>> THEN <<>>
                                         ELSE fs[file_path][1]]
                    /\ pc' = IF fs[file_path] = <<>> THEN "write"
                             ELSE "post_line"
                    /\ UNCHANGED <<post_idx, post_log>>
    /\ UNCHANGED <<fs, scanVars, poolVars, post_files, rewrites, post_calls,
                   confVars>>

PostResults == {"same", "rewritten", "raised"}

\* Detectors that rewrite a line again however often they have seen it
PostResultsInAnyPass(ps, file_path) == PostResults

\* What a postprocess call can do in the pass ps on a line of file_path.
\* The detectors return a line they have rewritten unchanged, as
\* image_localizer.py 339-353 does (old_ref is no longer in the line): in a
\* second pass over a document the first pass rewrote, the call returns the
\* line or raises.
PostResultsIn(ps, file_path) ==
    IF ps.n = 2 /\ file_path \in ps.updated THEN {"same", "raised"}
    ELSE PostResults

\* The value postprocess returned is dropped
PostprocessedDropped(line, m, out) == line

\* What postprocess returns for a line: the line itself, or the line as
\* rewritten by the module
Postprocessed(line, m, out) == IF out = "rewritten" THEN Append(line, m) ELSE line

\* A loop that puts each line in front of the lines it has
NewLinesPrepended(new_lines, line) == <<line>> \o new_lines

\* processor.py 340, new_lines.append(line)
NewLinesAfter(new_lines, line) == Append(new_lines, line)

\* processor.py 333-340: one postprocess call on the current line or, after
\* the last one, new_lines.append(line)
PostLine ==
    /\ pc = "post_line"
    /\ LET lm == LineMap(rw.file_path, rw.line_no) IN
       IF rw.k <= Len(lm)
       THEN \E out \in PostResultsIn(pass, rw.file_path) :
            /\ post_calls' = Append(post_calls,
                    [module |-> lm[rw.k].module, file_path |-> rw.file_path,
                     line_no |-> rw.line_no, metadata |-> lm[rw.k].entry.metadata,
                     line |-> rw.line, out |-> out,
                     returned |-> IF out = "rewritten"
                                  THEN Append(rw.line, lm[rw.k].module)
                                  ELSE rw.line])
            /\ IF out = "raised"
               THEN PostEnds("postprocess_failed")
               ELSE /\ rw' = [rw EXCEPT !.k = @ + 1,
                               !.line = Postprocessed(@, lm[rw.k].module, out)]
                    /\ UNCHANGED <<pc, post_idx, post_log>>
       ELSE /\ IF rw.line_no + 1 < Len(rw.lines)
               THEN /\ rw' = [rw EXCEPT !.new_lines = NewLinesAfter(@, rw.line),
                                !.line_no = @ + 1, !.k = 1,
                                !.line = rw.lines[rw.line_no + 2]]
                    /\ UNCHANGED pc
               ELSE /\ rw' = [rw EXCEPT !.new_lines = NewLinesAfter(@, rw.line)]
                    /\ pc' = "write"
            /\ UNCHANGED <<post_idx, post_log, post_calls>>
    /\ UNCHANGED <<fs, scanVars, poolVars, post_files, rewrites, confVars>>

\* processor.py 344: open(temp_file, 'w') creates or truncates the file
OpenTemp ==
    /\ pc = "write"
    /\ \/ /\ fs' = FsWrite(fs, temp_file_of(rw.file_path), <<>>)
          /\ pc' = "writing"
          /\ UNCHANGED <<post_idx, rw, post_log>>
       \/ /\ PostEnds("write_failed")
          /\ UNCHANGED fs
    /\ UNCHANGED <<scanVars, poolVars, post_files, rewrites, post_calls,
                   confVars>>

\* processor.py 345: writelines, one line at a time; an I/O error ends the
\* rewrite of this document (350)
WriteLine ==
    /\ pc = "writing"
    /\ IF rw.written < Len(rw.new_lines)
       THEN \/ /\ fs' = [fs EXCEPT ![temp_file_of(rw.file_path)] =
                            Append(@, rw.new_lines[rw.written + 1])]
               /\ rw' = [rw EXCEPT !.written = @ + 1]
               /\ UNCHANGED <<pc, post_idx, post_log>>
            \/ /\ PostEnds("write_failed")
               /\ UNCHANGED fs
       ELSE /\ pc' = "replace"
            /\ UNCHANGED <<fs, rw, post_idx, post_log>>
    /\ UNCHANGED <<scanVars, poolVars, post_files, rewrites, post_calls,
                   confVars>>

\* processor.py 346: temp_file.replace(file_path)
ReplaceFile ==
    /\ pc = "replace"
    /\ \/ /\ fs' = FsMove(fs, temp_file_of(rw.file_path), rw.file_path)
          /\ rewrites' = [q \in DOMAIN rewrites \cup {rw.file_path} |->
                            IF q = rw.file_path THEN rw.new_lines
                            ELSE rewrites[q]]
          /\ PostEnds("updated")
       \/ /\ UNCHANGED <<fs, rewrites>>
          /\ PostEnds("replace_failed")
    /\ UNCHANGED <<scanVars, poolVars, post_files, post_calls, confVars>>

\* ----------------------------------------------------------- specification
Next ==
    \/ PopFile
    \/ ProbeStep
    \/ ExpandStep
    \/ PurgeStep
    \/ RequeueStep
    \/ StartPreprocessing
    \/ SubmitJob
    \/ \E i \in TaskIds : StartTask(i)
    \/ \E i \in TaskIds : GetDomainLock(i)
    \/ \E i \in TaskIds : AcquireLock(i)
    \/ \E i \in TaskIds : WaitForRateLimit(i)
    \/ \E i \in TaskIds : CallPreprocess(i)
    \/ \E i \in TaskIds : FinishPreprocess(i)
    \/ Tick
    \/ CollectResult
    \/ Shutdown
    \/ StartPostprocessing
    \/ PostFile
    \/ PostLine
    \/ OpenTemp
    \/ WriteLine
    \/ ReplaceFile

Spec == Init /\ [][Next]_vars

\* ------------------------------------------- a dry run, then the real run
\* The tool is run again on the same corpus without --dry-run: a new
\* Processor with newly instantiated modules (main.py 163-185).  The
\* detectors answer a probe they were already asked in the same way.
Rerun ==
    /\ pc = "done"
    /\ dry_run
    /\ run = 1
    /\ dry_counts' = [scanned |-> processed_count, jobs |-> total_jobs,
                      lines |-> Len(AllLines)]
    /\ run' = 2
    /\ dry_run' = FALSE
    /\ pc' = "scan"
    /\ files_to_process' = input_files
    /\ expanded_files' = {}
    /\ processed_count' = 0
    /\ cur' = NoCur
    /\ jobs' = EmptyLists
    /\ postprocess_lines' = EmptyLists
    /\ scan_log' = <<>>
    /\ promotions' = <<>>
    /\ requeue_log' = <<>>
    /\ pop_log' = <<>>
    /\ expand_log' = <<>>
    /\ post_log' = <<>>
    /\ probe_log' = <<>>
    /\ completed' = 0
    /\ post_files' = <<>>
    /\ post_idx' = 1
    /\ UNCHANGED <<fs, fs0, input_files, max_workers, img, dom, pass, cli, lk,
                   probe_memo,
                   tasks, pool, domain_locks, last_request_time, now, failed,
                   collected, preprocess_log, rw, rewrites, post_calls>>

InitDryFirst == Init /\ dry_run

NextDryFirst == Next \/ Rerun

SpecDryFirst == InitDryFirst /\ [][NextDryFirst]_vars

\* ---------------------------------------------------------- image detector
\* modules/image_localizer.py on one line of an index.md document.  A line
\* is the sequence of its image references ![alt](...).  A reference is
\* [url, title, loose, local]: title is "" when it has none; loose says
\* that the text between the parentheses has white space around it or more
\* than one blank before the title; local says that url is a local file
\* name.
RemoteUrls == {"u1", "u2"}

Titles == {"", "t"}

Ref(url, title, loose) ==
    [url |-> url, title |-> title, loose |-> loose, local |-> FALSE]

Refs == {Ref(u, t, l) : u \in RemoteUrls, t \in Titles, l \in BOOLEAN}

MaxRefs == 2

ImageLines == UNION {[1..n -> Refs] : n \in 1..MaxRefs}

\* image_localizer.py 77-101: the entry of metadata['images'] for one
\* reference; strip() and split(None, 1) drop the white space
ImageOf(r) ==
    [url |-> r.url, title |-> r.title, local_filename |-> "",
     success |-> "unset"]

\* image_localizer.py 236-254: the output file name of the n-th file saved
\* under the name derived from url
LocalName(url, n) ==
    IF url = "u1"
    THEN (IF n = 1 THEN "u1.webp" ELSE IF n = 2 THEN "u1_2.webp"
          ELSE "u1_3.webp")
    ELSE (IF n = 1 THEN "u2.webp" ELSE IF n = 2 THEN "u2_2.webp"
          ELSE "u2_3.webp")

LocalNames == {LocalName(u, n) : u \in RemoteUrls, n \in 1..MaxRefs}

\* image_localizer.py 166-304, _download_and_convert: "ok"; "save_failed"
\* (except at 296, returns False); "download_failed" (urlopen raised: the
\* handler at 211 calls _should_retry_error, whose parameter named error
\* hides the module urllib.error, so error.URLError raises AttributeError,
\* which leaves preprocess)
DownloadOutcomes == {"ok", "save_failed", "download_failed"}

\* The images before position i saved from the same url
SavedBefore(images, i) ==
    {j \in 1..(i - 1) : images[j].url = images[i].url
                        /\ images[j].success = "true"}

RECURSIVE DownloadAll(_, _, _)
\* image_localizer.py 131-141: the loop of preprocess from position i on
DownloadAll(images, outs, i) ==
    IF i > Len(images) \/ outs[i] = "download_failed" THEN images
    ELSE DownloadAll(
            [images EXCEPT
                ![i].success = IF outs[i] = "ok" THEN "true" ELSE "false",
                ![i].local_filename =
                    IF outs[i] = "ok"
                    THEN LocalName(images[i].url,
                                   Cardinality(SavedBefore(images, i)) + 1)
                    ELSE ""],
            outs, i + 1)

\* image_localizer.py 131-143 and processor.py 267-273: how the job ends
JobResult(outs) ==
    LET n == Len(outs) IN
    IF \E i \in 1..n : outs[i] = "download_failed" THEN "raised"
    ELSE IF \E i \in 1..n : outs[i] = "save_failed" THEN "false"
    ELSE "true"

\* image_localizer.py 324-332: url_replacements[url], the pair of the last
\* image of that url that succeeded
Replaceable(images, url) ==
    {i \in 1..Len(images) : /\ images[i].url = url
                            /\ images[i].success = "true"
                            /\ images[i].local_filename # ""}

Replacement(images, url) ==
    LET last == CHOOSE i \in Replaceable(images, url) :
                    \A j \in Replaceable(images, url) : j <= i
    IN images[last]

\* A replacement that finds the reference whatever its white space
OldRefMatchesLoosely(r, url, title) ==
    /\ ~r.local
    /\ r.url = url
    /\ r.title = title

\* image_localizer.py 342-353: the text of the reference r contains
\* old_ref, "](url title)" or "](url)"
OldRefMatches(r, url, title) ==
    /\ ~r.local
    /\ r.url = url
    /\ r.title = title
    /\ ~r.loose

\* image_localizer.py 339-353: str.replace for every url of
\* url_replacements, on one reference
ReplacedRef(r, images) ==
    IF /\ ~r.local
       /\ Replaceable(images, r.url) # {}
       /\ OldRefMatches(r, r.url, Replacement(images, r.url).title)
    THEN [r EXCEPT !.url = Replacement(images, r.url).local_filename,
                   !.local = TRUE]
    ELSE r

\* image_localizer.py 306-355, postprocess
ImagePostprocessed(line, images) ==
    [i \in 1..Len(line) |-> ReplacedRef(line[i], images)]

pipelineVars ==
    <<fs, pc, scanVars, poolVars, postVars, fs0, input_files, dry_run,
      max_workers, run, dry_counts, cli>>

\* References to local files, which the probe leaves out
LocalRefs ==
    {[url |-> "l1", title |-> t, loose |-> FALSE, local |-> TRUE] :
        t \in Titles}

\* image_localizer.py 92-99: the entries for the references whose url
\* starts with http:// or https://
ExternalImages(line) ==
    LET ext == SelectSeq(line, LAMBDA r : ~r.local)
    IN [i \in 1..Len(ext) |-> ImageOf(ext[i])]

\* A probe that asks for the promotion whatever the document's name
image_probe_ignoring_name(file_path, line) ==
    IF ExternalImages(line) = <<>>
    THEN [action |-> IGNORE, images |-> <<>>]
    ELSE [action |-> EXPAND, images |-> ExternalImages(line)]

\* image_localizer.py 64-113, probe
image_probe(file_path, line) ==
    IF ExternalImages(line) = <<>>
    THEN [action |-> IGNORE, images |-> <<>>]
    ELSE IF ~IsIndexMd(file_path)
    THEN [action |-> EXPAND, images |-> ExternalImages(line)]
    ELSE [action |-> TAG_WITH_PREPROCESS_AND_POSTPROCESS,
          images |-> ExternalImages(line)]

\* The probe of one line; a job follows only for
\* TAG_WITH_PREPROCESS_AND_POSTPROCESS (processor.py 154-199)
ImageProbe ==
    /\ img.pc = "probe"
    /\ LET r == image_probe(img.file_path, img.line) IN
        img' = [img EXCEPT
                !.pc = IF r.action = TAG_WITH_PREPROCESS_AND_POSTPROCESS
                       THEN "preprocess" ELSE "probed",
                !.action = r.action,
                !.images = r.images,
                !.probed = r.images]
    /\ UNCHANGED <<pipelineVars, dom, pass, lk>>

\* image_localizer.py 115-143, preprocess, called by the worker
ImagePreprocess ==
    /\ img.pc = "preprocess"
    /\ \E outs \in [1..Len(img.images) -> DownloadOutcomes] :
        img' = [img EXCEPT !.pc = "postprocess",
                    !.images = DownloadAll(img.images, outs, 1),
                    !.job_result = JobResult(outs)]
    /\ UNCHANGED <<pipelineVars, dom, pass, lk>>

\* A TaggedLine that holds its own copy of what probe returned
MetadataOfLineCopied(im) == im.probed

\* processor.py 177-193: the Job and the PostprocessLine are built with the
\* same dict object (core.py 38-54 keep the reference), so the images read
\* through the TaggedLine are the ones the Job's preprocess has written to
\* (im.images); im.probed is what probe returned
MetadataOfLine(im) == im.images

\* processor.py 336-338: the rewrite pass calls postprocess for the tagged
\* line with the TaggedLine's metadata, whatever became of its job
ImagePostprocess ==
    /\ img.pc = "postprocess"
    /\ img' = [img EXCEPT !.pc = "done",
                    !.read = MetadataOfLine(img),
                    !.result = ImagePostprocessed(img.line, MetadataOfLine(img))]
    /\ UNCHANGED <<pipelineVars, dom, pass, lk>>

\* No run of the pipeline is in progress
PipelineIdle ==
    /\ fs = <<>>
    /\ fs0 = <<>>
    /\ max_workers = 1
    /\ dry_run = FALSE
    /\ input_files = <<>>
    /\ pc = "done"
    /\ files_to_process = <<>>
    /\ expanded_files = {}
    /\ processed_count = 0
    /\ cur = NoCur
    /\ jobs = EmptyLists
    /\ postprocess_lines = EmptyLists
    /\ probe_memo = <<>>
    /\ probe_log = <<>>
    /\ scan_log = <<>>
    /\ promotions = <<>>
    /\ requeue_log = <<>>
    /\ pop_log = <<>>
    /\ expand_log = <<>>
    /\ tasks = <<>>
    /\ pool = "none"
    /\ domain_locks = <<>>
    /\ last_request_time = <<>>
    /\ now = 0
    /\ completed = 0
    /\ failed = 0
    /\ collected = 0
    /\ preprocess_log = <<>>
    /\ post_files = <<>>
    /\ post_idx = 1
    /\ rw = NoRw
    /\ rewrites = <<>>
    /\ post_log = <<>>
    /\ post_calls = <<>>
    /\ run = 1
    /\ dry_counts = NoCounts
    /\ pass = NoPass
    /\ cli = NoCli

InitImage ==
    /\ PipelineIdle
    /\ dom = NoDom
    /\ lk = NoLk
    /\ \E line \in ImageLines : img = [NoImg EXCEPT !.pc = "probe",
                                                    !.file_path = DocAIndex,
                                                    !.line = line]

NextImage == ImageProbe \/ ImagePreprocess \/ ImagePostprocess

SpecImage == InitImage /\ [][NextImage]_vars

\* The probe alone, on lines that also hold local references or no
\* reference at all, in documents of any name
ProbeLines == UNION {[1..n -> Refs \cup LocalRefs] : n \in 0..MaxRefs}

ProbeDocs ==
    {DocA, DocB, DocAIndex, new_file_of(DocB), MkPath(<<>>, "index", "md")}

InitImageProbe ==
    /\ PipelineIdle
    /\ dom = NoDom
    /\ lk = NoLk
    /\ \E line \in ProbeLines, f \in ProbeDocs :
            img = [NoImg EXCEPT !.pc = "probe", !.file_path = f,
                                !.line = line]

NextImageProbe == ImageProbe

SpecImageProbe == InitImageProbe /\ [][NextImageProbe]_vars

\* ------------------------------------------------------------- origin key
\* worker.py 32-69 on one metadata dict.  A url is NoUrl (None or ''), a
\* string without a network location (netloc "") or one with a host.
Hosts == {"h1", "h2"}

UrlValues == {NoUrl, Url("")} \cup {Url(h) : h \in Hosts}

\* The values of metadata['images']: lists of up to two image dicts
ImagesValues ==
    {<<>>} \cup {<<u>> : u \in UrlValues}
           \cup {<<Url(g), Url(h)>> : g, h \in Hosts}

KeySets == SUBSET {"images", "tweet_id", "url"}

\* The metadata dicts explored: any of the three fields present or absent
Metas ==
    {Meta(ks, IF "images" \in ks THEN im ELSE <<>>,
              IF "url" \in ks THEN u ELSE NoUrl) :
        ks \in KeySets, im \in ImagesValues, u \in UrlValues}

\* worker.py 165-186, submit_job: the origin key of the job is computed
ExtractDomain ==
    /\ dom.pc = "submit"
    /\ dom' = [dom EXCEPT !.pc = "done",
                    !.key = extract_domain_from_metadata(dom.metadata)]
    /\ UNCHANGED <<pipelineVars, img, pass, lk>>

InitDomain ==
    /\ PipelineIdle
    /\ img = NoImg
    /\ lk = NoLk
    /\ \E md \in Metas : dom = [NoDom EXCEPT !.pc = "submit", !.metadata = md]

NextDomain == ExtractDomain

SpecDomain == InitDomain /\ [][NextDomain]_vars

\* ------------------------------------------------- three jobs in the pool
\* run_preprocessing after the scan of one document a/index.md of three
\* lines x, each tagged by the first detector with a job of origin
\* __local__ or h1.
PoolDoc == DocAIndex

PoolLines == << <<"x">>, <<"x">>, <<"x">> >>

PoolAnswers ==
    {r \in ProbeResults : r.action \in {TAG_WITH_PREPROCESS_ONLY,
                                         TAG_WITH_PREPROCESS_AND_POSTPROCESS}}

RECURSIVE ScannedLists(_, _)
\* processor.py 142-199 on PoolDoc: the lists of the first detector after
\* the lines 0..k-1 were probed with the answers ans
ScannedLists(ans, k) ==
    IF k = 0 THEN [jobs |-> <<>>, lines |-> <<>>]
    ELSE LET before == ScannedLists(ans, k - 1)
             job == [file_path |-> PoolDoc, line_no |-> k - 1,
                     line |-> PoolLines[k], module_name |-> Modules[1],
                     metadata |-> ans[k].metadata]
             pp == [file_path |-> PoolDoc, line_no |-> k - 1,
                    line |-> PoolLines[k], metadata |-> ans[k].metadata]
         IN [jobs |-> JobsAfterDispatch(before.jobs, ans[k].action, job),
             lines |-> LinesAfterDispatch(before.lines, ans[k].action, pp)]

\* The state in which process_all has emptied the worklist (processor.py
\* 366-369) and is about to call run_preprocessing
InitPool ==
    /\ fs = Storage(<<PoolDoc>>, <<PoolLines>>)
    /\ fs0 = fs
    /\ input_files = <<PoolDoc>>
    /\ dry_run = FALSE
    /\ max_workers \in 1..MaxWorkers
    /\ pc = "scan"
    /\ files_to_process = <<>>
    /\ expanded_files = {}
    /\ processed_count = 1
    /\ cur = NoCur
    /\ \E ans \in [1..Len(PoolLines) -> PoolAnswers] :
        /\ jobs = [m \in ModuleNames |->
                        IF m = Modules[1]
                        THEN ScannedLists(ans, Len(PoolLines)).jobs ELSE <<>>]
        /\ postprocess_lines = [m \in ModuleNames |->
                        IF m = Modules[1]
                        THEN ScannedLists(ans, Len(PoolLines)).lines ELSE <<>>]
        /\ probe_memo = [key \in {<<Modules[1], PoolDoc, k - 1>> :
                                        k \in 1..Len(PoolLines)} |->
                            ans[key[3] + 1]]
    /\ probe_log = [k \in 1..Len(PoolLines) |->
                        [module |-> Modules[1], file_path |-> PoolDoc,
                         line_no |-> k - 1, scan |-> 1]]
    /\ scan_log = <<PoolDoc>>
    /\ pop_log = <<[file_path |-> PoolDoc, how |-> "read"]>>
    /\ promotions = <<>>
    /\ requeue_log = <<>>
    /\ expand_log = <<>>
    /\ tasks = <<>>
    /\ pool = "none"
    /\ domain_locks = <<>>
    /\ last_request_time = <<>>
    /\ now = 0
    /\ completed = 0
    /\ failed = 0
    /\ collected = 0
    /\ preprocess_log = <<>>
    /\ post_files = <<>>
    /\ post_idx = 1
    /\ rw = NoRw
    /\ rewrites = <<>>
    /\ post_log = <<>>
    /\ post_calls = <<>>
    /\ run = 1
    /\ dry_counts = NoCounts
    /\ img = NoImg
    /\ dom = NoDom
    /\ pass = NoPass
    /\ cli = NoCli
    /\ lk = NoLk

\* processor.py 215-282, run_preprocessing, and the pool's threads
NextPool ==
    \/ StartPreprocessing
    \/ SubmitJob
    \/ \E i \in TaskIds : StartTask(i)
    \/ \E i \in TaskIds : GetDomainLock(i)
    \/ \E i \in TaskIds : AcquireLock(i)
    \/ \E i \in TaskIds : WaitForRateLimit(i)
    \/ \E i \in TaskIds : CallPreprocess(i)
    \/ \E i \in TaskIds : FinishPreprocess(i)
    \/ Tick
    \/ CollectResult
    \/ Shutdown

SpecPool == InitPool /\ [][NextPool]_vars

\* ------------------------------------------------------ locks of the pool
\* worker.py 99-163 statement by statement, for MaxThreads jobs submitted
\* to a pool of lk.workers threads.  lk.th[t] is the work item t: its
\* position pc, its domain and the lock _get_domain_lock returned to it
\* (0: none yet).  lk.guard is the holder of _domain_locks_lock (0: free),
\* lk.locks the dict _domain_locks (domain -> number of the Lock object),
\* lk.created the domain each Lock object was created for, in creation
\* order, lk.held the holder of each Lock object, lk.last the thread that
\* wrote _last_request_time[domain] last.
MaxThreads == 2

LkThreads == 1..Len(lk.th)

LkActive == {t \in LkThreads : lk.th[t].pc \notin {"queued", "done"}}

LkSetPc(t, p) == [lk.th EXCEPT ![t].pc = p]

notLkVars == <<pipelineVars, img, dom, pass>>

\* worker.py 89 (ThreadPoolExecutor): a free thread takes the oldest queued
\* work item and enters _execute_with_rate_limit (149)
LkStart(t) ==
    /\ lk.th[t].pc = "queued"
    /\ \A u \in LkThreads : u < t => lk.th[u].pc # "queued"
    /\ Cardinality(LkActive) < lk.workers
    /\ lk' = [lk EXCEPT !.th = LkSetPc(t, "get_guard")]
    /\ UNCHANGED notLkVars

\* A guard that never blocks
GuardAlwaysFree(g) == TRUE

\* worker.py 109, 121 and 159, "with self._domain_locks_lock": the guard
\* can be taken
GuardFree(g) == g = 0

\* The statement after the guard was taken at position p
LkInsideGuard(p) ==
    IF p = "get_guard" THEN "check"
    ELSE IF p = "rl_guard" THEN "rl_read"
    ELSE "stamp"

LkTakeGuard(t) ==
    /\ lk.th[t].pc \in {"get_guard", "rl_guard", "stamp_guard"}
    /\ GuardFree(lk.guard)
    /\ lk' = [lk EXCEPT !.guard = t,
                        !.th = LkSetPc(t, LkInsideGuard(lk.th[t].pc))]
    /\ UNCHANGED notLkVars

\* worker.py 110: if domain not in self._domain_locks
LkCheck(t) ==
    /\ lk.th[t].pc = "check"
    /\ lk' = [lk EXCEPT !.th = LkSetPc(t,
                    IF lk.th[t].domain \in DOMAIN lk.locks THEN "return"
                    ELSE "create")]
    /\ UNCHANGED notLkVars

\* worker.py 111: self._domain_locks[domain] = threading.Lock()
LkCreate(t) ==
    /\ lk.th[t].pc = "create"
    /\ LET d == lk.th[t].domain
           id == Len(lk.created) + 1
       IN lk' = [lk EXCEPT
                    !.created = Append(@, d),
                    !.held = Append(@, 0),
                    !.locks = [e \in DOMAIN lk.locks \cup {d} |->
                                    IF e = d THEN id ELSE lk.locks[e]],
                    !.th = LkSetPc(t, "return")]
    /\ UNCHANGED notLkVars

\* worker.py 112: return self._domain_locks[domain], leaving the with
\* block; next is "with lock" (152)
LkReturn(t) ==
    /\ lk.th[t].pc = "return"
    /\ lk' = [lk EXCEPT
                !.guard = 0,
                !.th = [@ EXCEPT ![t].pc = "acquire",
                                 ![t].lock = lk.locks[lk.th[t].domain]]]
    /\ UNCHANGED notLkVars

\* worker.py 152, "with lock": blocks until the Lock object is free
LkAcquire(t) ==
    /\ lk.th[t].pc = "acquire"
    /\ lk.held[lk.th[t].lock] = 0
    /\ lk' = [lk EXCEPT !.held[lk.th[t].lock] = t,
                        !.th = LkSetPc(t, "rl_guard")]
    /\ UNCHANGED notLkVars

\* worker.py 122-130: read _last_request_time.get(domain) and leave the
\* guard; the sleep that may follow ends by itself
LkReadLast(t) ==
    /\ lk.th[t].pc = "rl_read"
    /\ lk' = [lk EXCEPT !.guard = 0, !.th = LkSetPc(t, "preprocess")]
    /\ UNCHANGED notLkVars

\* A with block that keeps its lock when it is left
LkHeldAfterExitKept(held, lock) == held

\* worker.py 152-163: the with block is left, by return or by an
\* exception, and its lock is released
LkHeldAfterExit(held, lock) == [held EXCEPT ![lock] = 0]

\* worker.py 157: module.preprocess(job) returns, or raises and leaves
\* the with block of 152
LkPreprocess(t) ==
    /\ lk.th[t].pc = "preprocess"
    /\ \/ lk' = [lk EXCEPT !.th = LkSetPc(t, "stamp_guard")]
       \/ lk' = [lk EXCEPT !.held = LkHeldAfterExit(@, lk.th[t].lock),
                           !.th = [@ EXCEPT ![t].pc = "done",
                                            ![t].raised = TRUE]]
    /\ UNCHANGED notLkVars

\* worker.py 160: self._last_request_time[domain] = time.time(), then the
\* guard is left
LkStamp(t) ==
    /\ lk.th[t].pc = "stamp"
    /\ LET d == lk.th[t].domain IN
       lk' = [lk EXCEPT
                !.last = [e \in DOMAIN lk.last \cup {d} |->
                                IF e = d THEN t ELSE lk.last[e]],
                !.guard = 0,
                !.th = LkSetPc(t, "release")]
    /\ UNCHANGED notLkVars

\* worker.py 163: return result leaves the with block of 152
LkRelease(t) ==
    /\ lk.th[t].pc = "release"
    /\ lk' = [lk EXCEPT !.held = LkHeldAfterExit(@, lk.th[t].lock),
                        !.th = LkSetPc(t, "done")]
    /\ UNCHANGED notLkVars

\* worker.py 195, executor.shutdown(wait=True)
LkShutdown ==
    /\ lk.pool = "open"
    /\ \A t \in LkThreads : lk.th[t].pc = "done"
    /\ lk' = [lk EXCEPT !.pool = "shutdown"]
    /\ UNCHANGED notLkVars

\* MaxThreads jobs, each of any domain, submitted to a pool of 1 to
\* MaxThreads threads
InitLocks ==
    /\ PipelineIdle
    /\ img = NoImg
    /\ dom = NoDom
    /\ \E w \in 1..MaxThreads, ds \in [1..MaxThreads -> Hosts] :
        lk = [NoLk EXCEPT
                !.pool = "open",
                !.workers = w,
                !.th = [t \in 1..MaxThreads |->
                            [pc |-> "queued", domain |-> ds[t], lock |-> 0,
                             raised |-> FALSE]]]

NextLocks ==
    \/ \E t \in LkThreads : LkStart(t)
    \/ \E t \in LkThreads : LkTakeGuard(t)
    \/ \E t \in LkThreads : LkCheck(t)
    \/ \E t \in LkThreads : LkCreate(t)
    \/ \E t \in LkThreads : LkReturn(t)
    \/ \E t \in LkThreads : LkAcquire(t)
    \/ \E t \in LkThreads : LkReadLast(t)
    \/ \E t \in LkThreads : LkPreprocess(t)
    \/ \E t \in LkThreads : LkStamp(t)
    \/ \E t \in LkThreads : LkRelease(t)
    \/ LkShutdown

SpecLocks == InitLocks /\ [][NextLocks]_vars

\* The threads of the pool and the main thread are scheduled by the
\* operating system: a statement that stays executable is executed, and
\* every preprocess call ends.
FairLocks ==
    /\ \A t \in 1..MaxThreads :
            /\ WF_vars(LkStart(t))
            /\ WF_vars(LkTakeGuard(t))
            /\ WF_vars(LkCheck(t))
            /\ WF_vars(LkCreate(t))
            /\ WF_vars(LkReturn(t))
            /\ WF_vars(LkAcquire(t))
            /\ WF_vars(LkReadLast(t))
            /\ WF_vars(LkPreprocess(t))
            /\ WF_vars(LkStamp(t))
            /\ WF_vars(LkRelease(t))
    /\ WF_vars(LkShutdown)

SpecLocksLive == SpecLocks /\ FairLocks

\* run_postprocessing (processor.py 284-353) called once more after it has
\* returned, with the lists module.postprocess_lines and storage as the
\* first call left them; the records of the pool, which the rewrite pass
\* does not read, are cleared
SecondPass ==
    /\ pc = "done"
    /\ pass.n = 1
    /\ ~dry_run
    /\ AllLines # <<>>
    /\ pass' = [n |-> 2, fs1 |-> fs,
                updated |-> {post_log[i].file_path :
                    i \in {j \in 1..Len(post_log) :
                                post_log[j].outcome = "updated"}}]
    /\ pc' = "post"
    /\ post_log' = <<>>
    /\ post_calls' = <<>>
    /\ tasks' = <<>>
    /\ completed' = 0
    /\ failed' = 0
    /\ collected' = 0
    /\ UNCHANGED <<fs, scanVars, pool, domain_locks, last_request_time, now,
                   preprocess_log, post_files, post_idx, rw, rewrites,
                   fs0, input_files, dry_run, max_workers, run, dry_counts,
                   img, dom, cli, lk>>

\* Real runs with one worker: the rewrite pass does not depend on how the
\* jobs were scheduled
InitTwice == Init /\ ~dry_run /\ max_workers = 1

NextTwice == Next \/ SecondPass

SpecTwice == InitTwice /\ [][NextTwice]_vars

\* -------------------------------------------------------------------- main
\* main.py 109-110: the registered detectors
AvailableModules == {"image_localizer", "tweet_downloader"}

\* main.py 121-124, module_map.get(name); "" for a name it does not hold
module_map(name) ==
    IF name = "image" THEN "image_localizer"
    ELSE IF name = "tweet" THEN "tweet_downloader"
    ELSE ""

\* main.py 127-134: the requested names that are known, short names
\* replaced by the full ones
Expanded(requested) ==
    {m \in requested : m \in AvailableModules}
    \cup {module_map(m) : m \in {x \in requested :
                                    /\ x \notin AvailableModules
                                    /\ module_map(x) \in AvailableModules}}

RequestNames == {"image", "tweet_downloader", "bogus"}

\* The values of --module: absent, or a list of names
Clis ==
    {NoCli} \cup {[given |-> TRUE, requested |-> r] :
                    r \in (SUBSET RequestNames) \ {{}}}

\* A main that goes on whatever it was given
SetupErrorNever(c, files) == FALSE

\* main.py 116-138 and 153-157: main returns 1 when --module names no known
\* detector, or when scan_markdown_files returns no document
SetupError(c, files) ==
    \/ c.given /\ Expanded(c.requested) = {}
    \/ files = <<>>

\* main.py 116-185: from the module filter to the call of process_all and
\* its first statement (processor.py 362).  The detectors that stay active
\* are the detectors of Modules; args.module is not read again.
MainSetup ==
    /\ pc = "main"
    /\ IF SetupError(cli, input_files)
       THEN /\ pc' = "setup_error"
            /\ UNCHANGED <<files_to_process, cli>>
       ELSE /\ pc' = "scan"
            /\ files_to_process' = input_files
            /\ cli' = NoCli
    /\ UNCHANGED <<fs, expanded_files, processed_count, cur, jobs,
                   postprocess_lines, probe_memo, probe_log, scan_log,
                   promotions,
                   requeue_log, pop_log, expand_log, poolVars, postVars,
                   fs0, input_files, dry_run, max_workers, run, dry_counts,
                   img, dom, pass, lk>>

\* What scan_markdown_files returned: one of the corpora, or no document
InitMain ==
    /\ \E c \in Corpora \cup {Corpus(<<>>, <<>>)} :
            /\ fs = c.fs
            /\ fs0 = fs
            /\ input_files = c.input
    /\ max_workers \in 1..MaxWorkers
    /\ dry_run \in BOOLEAN
    /\ cli \in Clis
    /\ pc = "main"
    /\ files_to_process = <<>>
    /\ NewProcessor

NextMain == MainSetup \/ Next

SpecMain == InitMain /\ [][NextMain]_vars

\* -------------------------------------------------------------- interrupts
\* A KeyboardInterrupt raised in the main thread while process_all runs.
\* No except clause of processor.py or worker.py catches it (they catch
\* Exception); it leaves process_all and is caught at main.py 186-188.
ScanPcs == {"scan", "probe", "expand", "purge", "requeue"}

RewritePcs == {"post", "post_file", "post_line", "write", "writing", "replace"}

\* The main thread is inside the with block of run_preprocessing and has
\* not reached its end
InPoolBlock == pc \in {"submit", "collect"}

\* An interrupt reported like any other exception
ExitCodeOfInterruptAsError(p) ==
    IF p = "done" THEN 0
    ELSE IF p \in {"fatal", "setup_error", "interrupted",
                    "interrupted_rewrite"} THEN 1
    ELSE -1

\* main.py 136-138, 155-157 and 183-197: the value main returns after a
\* setup error or when process_all ended in the way p (-1 while main has
\* not returned)
ExitCodeOf(p) ==
    IF p = "done" THEN 0
    ELSE IF p \in {"fatal", "setup_error"} THEN 1
    ELSE IF p \in {"interrupted", "interrupted_rewrite"} THEN 130
    ELSE -1

ExitCode == ExitCodeOf(pc)

\* The interrupt arrives during the scan or the rewrite pass: the
\* exception goes straight up to main
InterruptOutsidePool ==
    /\ pc \in ScanPcs \cup RewritePcs
    /\ pc' = IF pc \in ScanPcs THEN "interrupted" ELSE "interrupted_rewrite"
    /\ cur' = NoCur
    /\ rw' = NoRw
    /\ UNCHANGED <<fs, files_to_process, expanded_files, processed_count,
                   jobs, postprocess_lines, probe_memo, probe_log, scan_log,
                   promotions,
                   requeue_log, pop_log, expand_log, poolVars, post_files,
                   post_idx, rewrites, post_log, post_calls, confVars>>

\* The interrupt arrives inside the with block (in submit_job or in
\* future.result()): the block is left through __exit__ (worker.py 201-203)
InterruptInPool ==
    /\ InPoolBlock
    /\ pc' = "int_shutdown"
    /\ UNCHANGED <<fs, scanVars, poolVars, postVars, confVars>>

\* A shutdown that does not wait for the work items
ShutdownNoWait(ts) == TRUE

\* worker.py 195, executor.shutdown(wait=True): returns when every work
\* item submitted so far is done
ShutdownWaits(ts) == \A i \in 1..Len(ts) : ts[i].st = "done"

\* worker.py 201-203 after an interrupt: shutdown, then the exception goes
\* on to main
InterruptedShutdown ==
    /\ pc = "int_shutdown"
    /\ ShutdownWaits(tasks)
    /\ pool' = "shutdown"
    /\ pc' = "interrupted"
    /\ domain_locks' = <<>>
    /\ last_request_time' = <<>>
    /\ now' = 0
    /\ preprocess_log' = <<>>
    /\ UNCHANGED <<fs, scanVars, tasks, completed, failed, collected,
                   postVars, confVars>>

NextInterrupt ==
    \/ Next
    \/ InterruptOutsidePool
    \/ InterruptInPool
    \/ InterruptedShutdown

SpecInterrupt == Init /\ [][NextInterrupt]_vars

\* ------------------------------------------------------------------ claims
ScanningPcs == {"scan", "probe", "expand", "purge", "requeue"}

RewritingPcs == {"post_line", "write", "writing", "replace"}

Count(q, x) == Cardinality({i \in 1..Len(q) : q[i] = x})

\* The tasks of one domain whose preprocess call is executing
Running(domain) ==
    {i \in TaskIds : tasks[i].st = "running" /\ tasks[i].domain = domain}

Domains == {tasks[i].domain : i \in TaskIds}

\* C1: for every origin key, at most one preprocess call for a job of that
\* origin is executing at any instant.
C1_OriginExclusion == \A d \in Domains : Cardinality(Running(d)) <= 1

\* C1 witness: a job waits for the lock of its origin, held by a job whose
\* preprocess call is executing, while a worker is free for it.
C1_Witness ==
    \E i, j \in TaskIds :
        /\ i # j
        /\ tasks[i].domain = tasks[j].domain
        /\ tasks[i].st = "running"
        /\ tasks[j].st = "acquire"
        /\ max_workers >= 2

\* C2: any two preprocess calls for jobs of one origin start at least
\* rate_limit_delay apart, however the earlier call ended.
C2_MinimumGap ==
    \A i, j \in 1..Len(preprocess_log) :
        (i < j /\ preprocess_log[i].domain = preprocess_log[j].domain)
            => preprocess_log[j].start - preprocess_log[i].start
                    >= rate_limit_delay

\* The entries of the modules' lists, of the pool and of the rewrite pass
\* that reference the path p
References(p) ==
    /\ \/ \E m \in ModuleNames :
            \/ \E n \in 1..Len(jobs[m]) : jobs[m][n].file_path = p
            \/ \E n \in 1..Len(postprocess_lines[m]) :
                    postprocess_lines[m][n].file_path = p
       \/ \E i \in TaskIds : tasks[i].job.file_path = p
       \/ p \in Range(post_files)
       \/ rw.file_path = p

\* C3: once a promoted document's new path is in the worklist, and until the
\* end of the run, no Job and no TaggedLine of any detector references the
\* old path, and no preprocess or postprocess call receives it.
C3_NoStaleReference ==
    \A k \in 1..Len(promotions) :
        promotions[k].new \in Range(requeue_log)
            => ~References(promotions[k].old)

\* C3 witness: the run ended after a promotion of a document for which a
\* detector had recorded a Job or a TaggedLine.
C3_Witness ==
    /\ pc = "done"
    /\ \E k \in 1..Len(promotions) : \E key \in DOMAIN probe_memo :
        /\ key[2] = promotions[k].old
        /\ probe_memo[key].action \in
                {TAG, TAG_WITH_PREPROCESS_ONLY,
                 TAG_WITH_PREPROCESS_AND_POSTPROCESS}

\* No promotion that the real run attempted has failed
NoFailedPromotion ==
    \A key \in DOMAIN probe_memo :
        (/\ probe_memo[key].action = EXPAND
         /\ ~IsIndexMd(key[2])
         /\ key[2] \in Range(scan_log))
            => key[2] \in expanded_files

\* C4: the real run, its promotions succeeding, ends its scan with the
\* counts of the dry run: documents scanned, Jobs and TaggedLines.
C4_DryRunSameCounts ==
    (/\ run = 2
     /\ pc \notin ScanningPcs \cup {"fatal"}
     /\ NoFailedPromotion)
        => [scanned |-> processed_count, jobs |-> total_jobs,
            lines |-> Len(AllLines)] = dry_counts

\* C5: in a dry run storage never changes (no move, no temporary file, no
\* rewrite), no pool is created and no preprocess call is made.
C5_DryRunNoEffects ==
    dry_run =>
        /\ fs = fs0
        /\ promotions = <<>>
        /\ pool = "none"
        /\ tasks = <<>>
        /\ preprocess_log = <<>>
        /\ rewrites = <<>>

\* C5 witness: a dry run ended that had an expansion, a Job and a TaggedLine
\* to report.
C5_Witness ==
    /\ dry_run
    /\ pc = "done"
    /\ total_jobs > 0
    /\ AllLines # <<>>
    /\ \E key \in DOMAIN probe_memo :
            probe_memo[key].action = EXPAND /\ ~IsIndexMd(key[2])

\* No probe returned an action other than IGNORE for a line of d
OnlyIgnored(d) ==
    \A key \in DOMAIN probe_memo :
        key[2] = d => probe_memo[key].action \notin Action \ {IGNORE}

\* C6: a document for whose lines no probe returned an action other than
\* IGNORE exists under its path with the lines it had before the run.
C6_IgnoredDocumentPristine ==
    \A d \in DOMAIN fs0 :
        OnlyIgnored(d) => d \in DOMAIN fs /\ fs[d] = fs0[d]

\* C6 witness: a full run ended in which a document was scanned, all its
\* probes answering IGNORE, and another document was rewritten.
C6_Witness ==
    /\ pc = "done"
    /\ \E d \in DOMAIN fs0 :
        /\ OnlyIgnored(d)
        /\ \E key \in DOMAIN probe_memo : key[2] = d
        /\ \E e \in DOMAIN rewrites \cap DOMAIN fs0 :
                e # d /\ rewrites[e] # fs0[e]

\* What holds of a promotion whatever way the run ends: the old path is
\* gone and, while the scan goes on, the new path holds the old content; the
\* new path is appended to the worklist once, is scanned at most once, and
\* has been scanned once when preprocessing starts.
PromotedRescannedOnceUnlessAborted ==
    \A k \in 1..Len(promotions) :
        LET old == promotions[k].old
            new == promotions[k].new
            requeued == ~(pc \in {"purge", "requeue"} /\ cur.file_path = old)
        IN /\ old \notin DOMAIN fs
           /\ new \in DOMAIN fs
           /\ pc \in ScanningPcs => fs[new] = fs0[old]
           /\ Count(requeue_log, new) = IF requeued THEN 1 ELSE 0
           /\ Count(scan_log, new) <= 1
           /\ pc \notin ScanningPcs \cup {"fatal"} => Count(scan_log, new) = 1

\* C7: after a successful promotion the old path is gone, the new path
\* holds the old content while the scan goes on, the new path is appended to
\* the worklist once, and when the scan is over, however it ended, the new
\* path has been scanned exactly once.
C7_PromotedRescannedOnce ==
    /\ PromotedRescannedOnceUnlessAborted
    /\ \A k \in 1..Len(promotions) :
            pc \notin ScanningPcs => Count(scan_log, promotions[k].new) = 1

\* C8: no exception raised by a detector call aborts the run.
C8_NoDetectorExceptionAborts == pc # "fatal"

\* The tasks among the first n whose result is in results
Collected(n, results) ==
    Cardinality({k \in 1..n : tasks[k].result \in results})

\* C9: in a real run the tallies count each collected job once, true as
\* succeeded, false or raised as failed; once the results are collected
\* every job of the modules' lists was executed once and counted.
C9_EveryOutcomeCollected ==
    ~dry_run =>
        /\ completed = Collected(collected, {"true"})
        /\ failed = Collected(collected, {"false", "raised"})
        /\ (pool = "shutdown" \/ pc = "shutdown") =>
                /\ Len(tasks) = total_jobs
                /\ collected = Len(tasks)
                /\ completed + failed = Len(tasks)
                /\ \A i \in TaskIds : tasks[i].calls = 1

\* C9 witness: the pool was shut down after a job that raised and a sibling
\* that succeeded.
C9_Witness ==
    /\ pool = "shutdown"
    /\ \E i, j \in TaskIds :
            tasks[i].result = "raised" /\ tasks[j].result = "true"

\* C10: while a document is rewritten its path holds the lines read from
\* it; what was written so far is under the temporary path; the replace
\* happens when all lines are written, and a replaced document holds the
\* complete rewritten sequence.
C10_AtomicReplace ==
    /\ pc \in RewritingPcs =>
            /\ rw.file_path \in DOMAIN fs
            /\ fs[rw.file_path] = rw.lines
    /\ pc \in {"writing", "replace"} =>
            fs[temp_file_of(rw.file_path)] = SubSeq(rw.new_lines, 1, rw.written)
    /\ pc = "replace" =>
            /\ rw.written = Len(rw.new_lines)
            /\ Len(rw.new_lines) = Len(rw.lines)
    /\ \A f \in DOMAIN rewrites : f \in DOMAIN fs /\ fs[f] = rewrites[f]

\* C10 witness: a document was replaced by lines of which one is rewritten.
C10_Witness ==
    \E f \in DOMAIN rewrites :
        \E n \in 1..Len(rewrites[f]) : Len(rewrites[f][n]) > 1

\* The ways the rewrite of one document fails (processor.py 350)
PostFailures ==
    {"read_failed", "postprocess_failed", "write_failed", "replace_failed"}

\* What the path f held when the rewrite pass started: the lines it had
\* before the run, or those of the document that was promoted to it
OriginalLines(f) ==
    IF f \in DOMAIN fs0 THEN fs0[f]
    ELSE fs0[promotions[CHOOSE k \in 1..Len(promotions) :
                            promotions[k].new = f].old]

\* C11: the iterations of the rewrite pass follow the documents that have
\* tagged lines, one iteration each, whatever way earlier ones ended; a
\* document whose rewrite failed holds the lines it held before the pass,
\* an updated one holds the rewritten lines, and at the end of a real run
\* every document with tagged lines had its iteration.
C11_FailedRewriteIsolated ==
    /\ Len(post_log) <= Len(post_files)
    /\ \A k \in 1..Len(post_log) :
        LET f == post_log[k].file_path IN
        /\ f = post_files[k]
        /\ post_log[k].outcome \in PostFailures =>
                /\ f \in DOMAIN fs
                /\ fs[f] = OriginalLines(f)
                /\ f \notin DOMAIN rewrites
        /\ post_log[k].outcome = "updated" =>
                /\ f \in DOMAIN rewrites
                /\ fs[f] = rewrites[f]
    /\ pc = "done" => Len(post_log) = Len(post_files)

\* C11 witness: a real run ended in which the rewrite of one document
\* failed in a postprocess call and the next document was then updated
\* with a rewritten line.
C11_Witness ==
    /\ pc = "done"
    /\ \E k \in 1..Len(post_log) - 1 :
        /\ post_log[k].outcome = "postprocess_failed"
        /\ post_log[k + 1].outcome = "updated"
        /\ rewrites[post_log[k + 1].file_path]
                # OriginalLines(post_log[k + 1].file_path)

\* The main thread is in run_preprocessing, between the creation of the
\* pool and the end of its with block
PoolPcs == {"submit", "collect", "shutdown"}

\* The main thread is in run_postprocessing or past it
PostPcs == {"post", "post_file", "done"} \cup RewritingPcs

\* C12: once a job was handed to the pool the worklist is empty, no
\* document is being scanned and the main thread is past the scan; a
\* preprocess call runs only while the main thread is in run_preprocessing;
\* in a real run, when the main thread is in run_postprocessing or a
\* postprocess call was made, every job of the detectors' lists was
\* submitted and is done.
C12_PhasesNeverInterleave ==
    /\ tasks # <<>> =>
            /\ files_to_process = <<>>
            /\ cur = NoCur
            /\ pc \in PoolPcs \cup PostPcs
    /\ Active # {} => pc \in PoolPcs
    /\ (~dry_run /\ (pc \in PostPcs \/ post_calls # <<>>)) =>
            /\ Len(tasks) = total_jobs
            /\ \A i \in TaskIds : tasks[i].st = "done"

\* C12 witness: a postprocess call is about to be made in a run that
\* promoted a document, scanned it again and executed a job.
C12_Witness ==
    /\ pc = "post_line"
    /\ promotions # <<>>
    /\ tasks # <<>>

\* The paths of the entries of pop_log, in order
Popped == [k \in 1..Len(pop_log) |-> pop_log[k].file_path]

\* The documents a scan has entered: a path is taken from the worklist
\* only between two scans
ScanInProgress == pc \in {"probe", "expand", "purge", "requeue"}

\* C13: the paths taken from the worklist so far, followed by the worklist,
\* are the input list followed by the paths appended by promotions, in the
\* order of their appending; at most one document is being scanned, the one
\* taken last; when the scan is over and preprocessing may begin, the new
\* path of every promotion was taken from the worklist and read.
C13_FifoScan ==
    /\ Popped \o files_to_process = input_files \o requeue_log
    /\ ScanInProgress =>
            /\ pop_log # <<>>
            /\ cur.file_path = pop_log[Len(pop_log)].file_path
    /\ pc \in PoolPcs \cup PostPcs =>
            /\ files_to_process = <<>>
            /\ \A k \in 1..Len(promotions) :
                    \E n \in 1..Len(pop_log) :
                        /\ pop_log[n].file_path = promotions[k].new
                        /\ pop_log[n].how = "read"

\* C13 witness: preprocessing is about to begin after a promotion of the
\* first of two input documents, whose new path was scanned after the
\* second.
C13_Witness ==
    /\ pc = "scan"
    /\ files_to_process = <<>>
    /\ Len(input_files) = 2
    /\ Len(pop_log) = 3
    /\ \E k \in 1..Len(promotions) :
            /\ promotions[k].old = input_files[1]
            /\ pop_log[3] = [file_path |-> promotions[k].new, how |-> "read"]
    /\ pop_log[2] = [file_path |-> input_files[2], how |-> "read"]

\* No element occurs twice in the sequence q
Distinct(q) == \A i, j \in 1..Len(q) : q[i] = q[j] => i = j

\* C14: when the input paths are distinct, no path occurs twice in the
\* worklist, at any instant.
C14_WorklistDistinct == Distinct(input_files) => Distinct(files_to_process)

\* C14 witness: a promotion has just appended its new path to a worklist
\* in which another document is pending.
C14_Witness ==
    /\ pc = "scan"
    /\ Distinct(input_files)
    /\ Len(files_to_process) = 2
    /\ \E k \in 1..Len(promotions) : files_to_process[2] = promotions[k].new

\* C15: a path taken from the worklist after the promotion that moved it is
\* skipped without being opened; the document being scanned is never such a
\* path, and outside the scan that promoted it no Job and no TaggedLine of
\* a detector carries it.
C15_OldPathNeverRescanned ==
    \A k \in 1..Len(promotions) :
        LET old == promotions[k].old
            at == promotions[k].at
        IN /\ \A n \in 1..Len(pop_log) :
                (n > at /\ pop_log[n].file_path = old)
                    => pop_log[n].how = "skipped"
           /\ (ScanInProgress /\ Len(pop_log) > at) => cur.file_path # old
           /\ Len(pop_log) > at =>
                \A m \in ModuleNames :
                    /\ \A n \in 1..Len(jobs[m]) : jobs[m][n].file_path # old
                    /\ \A n \in 1..Len(postprocess_lines[m]) :
                            postprocess_lines[m][n].file_path # old

\* C15 witness: the run ended after the old path of a promoted document
\* was taken from the worklist once more.
C15_Witness ==
    /\ pc = "done"
    /\ \E k \in 1..Len(promotions) : \E n \in 1..Len(pop_log) :
            /\ n > promotions[k].at
            /\ pop_log[n].file_path = promotions[k].old

\* The entries of the log q (pop_log or expand_log) for the path p
EntriesOf(q, p) == {n \in 1..Len(q) : q[n].file_path = p}

\* expand_file is about to be called for the document being scanned
ExpandDue == pc = "expand" /\ cur.file_needs_expand

\* How the call of expand_file made by this step ended
LastOutcome == expand_log'[Len(expand_log')].outcome

\* One step of the run obeys the promotion rules: the step that ends the
\* scan of a document needing promotion calls expand_file once; an index.md
\* document is refused; a refused or failed call leaves storage, the
\* promotions and the worklist as they are and the scan goes on with the
\* next worklist entry; no other step calls expand_file.
PromotionStep ==
    /\ ExpandDue =>
            /\ Len(expand_log') = Len(expand_log) + 1
            /\ expand_log'[Len(expand_log')].file_path = cur.file_path
            /\ IsIndexMd(cur.file_path) => LastOutcome = "refused"
            /\ LastOutcome \in {"refused", "failed"} =>
                    /\ fs' = fs
                    /\ promotions' = promotions
                    /\ expanded_files' = expanded_files
                    /\ files_to_process' = files_to_process
                    /\ pc' = "scan"
                    /\ cur' = NoCur
    /\ ~ExpandDue => expand_log' = expand_log

\* C16: promotion is attempted once at the end of a scan that asked for it
\* and at no other step; an index.md document is refused and not moved; a
\* refused or failed promotion changes neither storage nor the worklist and
\* the scan continues with the next worklist entry.
C16_PromotionNeverRetried == [][PromotionStep]_vars

\* The state form of C16: a path was not handed to expand_file more often
\* than it was read, no index.md path was moved, and the worklist received
\* nothing but the new paths of successful promotions.
PromotionAttemptsBounded ==
    /\ \A n \in 1..Len(expand_log) :
        LET p == expand_log[n].file_path IN
        /\ Cardinality(EntriesOf(expand_log, p))
                <= Cardinality({i \in EntriesOf(pop_log, p) :
                                    pop_log[i].how = "read"})
        /\ IsIndexMd(p) => expand_log[n].outcome = "refused"
    /\ \A k \in 1..Len(promotions) : ~IsIndexMd(promotions[k].old)
    /\ Len(requeue_log) <= Len(promotions)

\* C16 witness: a real run ended in which one promotion failed and the
\* promotion of an index.md document was refused.
C16_Witness ==
    /\ pc = "done"
    /\ ~dry_run
    /\ \E i, j \in 1..Len(expand_log) :
            /\ expand_log[i].outcome = "failed"
            /\ expand_log[j].outcome = "refused"

\* The tasks whose preprocess call is executing
InPreprocess == {i \in TaskIds : tasks[i].st = "running"}

\* C17: at most max_workers work items are held by worker threads, so at
\* most max_workers preprocess calls are executing; with one worker at most
\* one call is executing, the calls are made in submission order, and a
\* call is made only when the jobs submitted before it are done.
C17_WorkerBound ==
    /\ Cardinality(Active) <= max_workers
    /\ Cardinality(InPreprocess) <= max_workers
    /\ max_workers = 1 =>
            /\ \A k \in 1..Len(preprocess_log) : preprocess_log[k].task = k
            /\ \A i \in Active : \A j \in TaskIds :
                    j < i => tasks[j].st = "done"

\* C17 witness: with one worker, the second of two jobs is in its
\* preprocess call after the first is done.
C17_Witness ==
    /\ max_workers = 1
    /\ \E i \in TaskIds :
            /\ i > 1
            /\ tasks[i].st = "running"
            /\ tasks[i - 1].st = "done"

\* The postprocess calls made for module m on line n of document f
CallsFor(m, f, n) ==
    {k \in 1..Len(post_calls) : /\ post_calls[k].module = m
                                /\ post_calls[k].file_path = f
                                /\ post_calls[k].line_no = n}

\* The TaggedLines of module m for line n of document f
LinesFor(m, f, n) ==
    {k \in 1..Len(postprocess_lines[m]) :
        /\ postprocess_lines[m][k].file_path = f
        /\ postprocess_lines[m][k].line_no = n}

\* The (module, document, line) triples of the TaggedLines
TaggedKeys ==
    UNION {{<<m, postprocess_lines[m][k].file_path,
              postprocess_lines[m][k].line_no>> :
                k \in 1..Len(postprocess_lines[m])} : m \in ModuleNames}

\* In a real run, once the pool has been shut down, the work items are the
\* Jobs of the detectors' lists, one each in the order of the lists, and
\* the preprocess of each was invoked once
EachJobRunOnce ==
    /\ \A i \in TaskIds : tasks[i].calls <= 1
    /\ (~dry_run /\ pc \in PostPcs) =>
            /\ Len(tasks) = Len(AllJobs)
            /\ \A i \in TaskIds :
                    /\ tasks[i].job = AllJobs[i].entry
                    /\ tasks[i].module = AllJobs[i].module
                    /\ tasks[i].calls = 1

\* The rewrite of the document reached its end of the line loop: every
\* postprocess call for it was made and returned
LinesAllProcessed(outcome) ==
    outcome \in {"updated", "write_failed", "replace_failed"}

\* C18 as stated: at the end of a real run every Job was submitted and
\* executed once and every TaggedLine was consumed by one postprocess call.
C18_EachConsumedOnce ==
    /\ EachJobRunOnce
    /\ (~dry_run /\ pc = "done") =>
            \A key \in TaggedKeys :
                Cardinality(CallsFor(key[1], key[2], key[3]))
                    = Cardinality(LinesFor(key[1], key[2], key[3]))

\* C18 amended: every Job is submitted and executed once; a TaggedLine is
\* consumed by at most one postprocess call, and by one when the rewrite of
\* its document got through all its lines; the TaggedLines of a document
\* whose read failed are not consumed, those of a document in which a
\* postprocess call raised are consumed up to that call.
C18_EachConsumedAtMostOnce ==
    /\ EachJobRunOnce
    /\ \A key \in TaggedKeys :
            Cardinality(CallsFor(key[1], key[2], key[3]))
                <= Cardinality(LinesFor(key[1], key[2], key[3]))
    /\ \A k \in 1..Len(post_calls) :
            <<post_calls[k].module, post_calls[k].file_path,
              post_calls[k].line_no>> \in TaggedKeys
    /\ \A n \in 1..Len(post_log) : \A key \in TaggedKeys :
            key[2] = post_log[n].file_path =>
                /\ LinesAllProcessed(post_log[n].outcome) =>
                        Cardinality(CallsFor(key[1], key[2], key[3]))
                            = Cardinality(LinesFor(key[1], key[2], key[3]))
                /\ post_log[n].outcome = "read_failed" =>
                        CallsFor(key[1], key[2], key[3]) = {}

\* C18 witness: a real run ended in which a Job was executed, a postprocess
\* call raised and left a TaggedLine of the same document unconsumed.
C18_Witness ==
    /\ pc = "done"
    /\ ~dry_run
    /\ tasks # <<>>
    /\ \E n \in 1..Len(post_log) : \E key \in TaggedKeys :
            /\ post_log[n].outcome = "postprocess_failed"
            /\ key[2] = post_log[n].file_path
            /\ CallsFor(key[1], key[2], key[3]) = {}

\* The position of module m in the registration order
ModuleIndex(m) == CHOOSE i \in 1..Len(Modules) : Modules[i] = m

\* The calls of post_calls for line n of document f, in the order made
CallsOnLine(f, n) ==
    SelectSeq(post_calls, LAMBDA c : c.file_path = f /\ c.line_no = n)

\* The modules that tag line n of document f
Taggers(f, n) ==
    {m \in ModuleNames : LinesFor(m, f, n) # {}}

\* C19: the postprocess calls on one line are made in registration order
\* of their detectors; the first receives the text read from the document
\* and each later one what the call before it returned; every line of an
\* updated document is what the last call on it returned, or the text read
\* when no detector tags it, and every tagging detector was called on it.
C19_LeftToRightComposition ==
    /\ \A c \in Range(post_calls) :
        LET calls == CallsOnLine(c.file_path, c.line_no) IN
        /\ calls[1].line = OriginalLines(c.file_path)[c.line_no + 1]
        /\ \A k \in 1..Len(calls) - 1 :
                /\ ModuleIndex(calls[k].module)
                        <= ModuleIndex(calls[k + 1].module)
                /\ calls[k + 1].line = calls[k].returned
    /\ \A f \in DOMAIN rewrites : \A n \in 1..Len(rewrites[f]) :
        LET calls == CallsOnLine(f, n - 1) IN
        /\ Len(rewrites[f]) = Len(OriginalLines(f))
        /\ {calls[k].module : k \in 1..Len(calls)} = Taggers(f, n - 1)
        /\ rewrites[f][n] = IF calls = <<>> THEN OriginalLines(f)[n]
                             ELSE calls[Len(calls)].returned

\* C19 witness: a document was updated whose line two detectors tag and
\* both rewrote.
C19_Witness ==
    \E f \in DOMAIN rewrites : \E n \in 1..Len(rewrites[f]) :
        /\ Taggers(f, n - 1) = ModuleNames
        /\ Len(rewrites[f][n]) = Len(OriginalLines(f)[n]) + 2

\* The local file names of the images of the given url that were saved
SavedNames(images, url) ==
    {images[i].local_filename : i \in Replaceable(images, url)}

\* C20: postprocess is invoked on the line whatever the job's result; in
\* the line it returns, a reference whose download succeeded is a local
\* file name saved from its url, and every other reference is as it was.
C20_FailedJobStillRewritten ==
    img.pc = "done" =>
        /\ Len(img.result) = Len(img.line)
        /\ \A i \in 1..Len(img.line) :
            IF img.images[i].success = "true"
            THEN /\ img.result[i].local
                 /\ img.result[i].url \in SavedNames(img.images, img.line[i].url)
            ELSE img.result[i] = img.line[i]

\* The rewrite pass calls postprocess for the TaggedLine of a job that
\* failed, when the rewrite of the document gets through its lines
PostprocessDespiteFailedJob ==
    \A i \in TaskIds : \A n \in 1..Len(post_log) :
        (/\ tasks[i].result \in {"false", "raised"}
         /\ post_log[n].file_path = tasks[i].job.file_path
         /\ LinesAllProcessed(post_log[n].outcome)
         /\ LinesFor(tasks[i].module, tasks[i].job.file_path,
                     tasks[i].job.line_no) # {})
            => CallsFor(tasks[i].module, tasks[i].job.file_path,
                        tasks[i].job.line_no) # {}

\* A document was updated whose TaggedLine belongs to a job that raised
FailedJobLineRewritten ==
    \E i \in TaskIds :
        /\ tasks[i].result = "raised"
        /\ tasks[i].job.file_path \in DOMAIN rewrites
        /\ CallsFor(tasks[i].module, tasks[i].job.file_path,
                    tasks[i].job.line_no) # {}

\* The urls of the metadata fields in the precedence order: images[0].url,
\* the oembed url built from tweet_id, url
CandidateUrls(md) ==
    (IF "images" \in md.keys /\ Len(md.images) > 0
     THEN <<md.images[1]>> ELSE <<>>)
    \o (IF "tweet_id" \in md.keys THEN <<Url("publish.x.com")>> ELSE <<>>)
    \o (IF "url" \in md.keys THEN <<md.url>> ELSE <<>>)

\* The candidates that are urls with a host
WithHost(urls) == SelectSeq(urls, LAMBDA u : ~u.empty /\ u.netloc # "")

\* The origin key the claim describes
ClaimedOrigin(md) ==
    IF WithHost(CandidateUrls(md)) = <<>> THEN LOCAL_KEY
    ELSE Head(WithHost(CandidateUrls(md))).netloc

\* C21: the origin key is the host of the first url with a host among
\* images[0].url, the tweet url and url, in that order, and '__local__'
\* when none of these fields holds a url with a host.
C21_OriginKeyPrecedence ==
    dom.pc = "done" => dom.key = ClaimedOrigin(dom.metadata)

\* The origin key when the metadata holds one of the three fields only
OriginKeySingleField ==
    (dom.pc = "done" /\ Cardinality(dom.metadata.keys) <= 1)
        => dom.key = ClaimedOrigin(dom.metadata)

\* The main thread has left process_all because of an interrupt that came
\* during scanning or preprocessing, or is leaving it
IntPcs == {"int_shutdown", "interrupted"}

\* One step of an interrupted run: the list of submitted jobs does not
\* grow, storage and the record of the rewrite pass do not change, and the
\* main thread does not resume the pipeline.
InterruptedStep ==
    pc \in IntPcs =>
        /\ Len(tasks') = Len(tasks)
        /\ fs' = fs
        /\ <<post_files, post_log, post_calls, rewrites, rw>>'
                = <<post_files, post_log, post_calls, rewrites, rw>>
        /\ pc' \in IntPcs

\* An interrupted run has rewritten nothing and ends with code 130; the
\* other ends give 0 or 1.
InterruptedExit ==
    /\ pc \in IntPcs =>
            /\ post_log = <<>>
            /\ post_calls = <<>>
            /\ rewrites = <<>>
            /\ Len(tasks) <= total_jobs
    /\ pc = "interrupted" => ExitCode = 130
    /\ pc = "int_shutdown" => ExitCode = -1
    /\ ExitCode = 130 => pc \in {"interrupted", "interrupted_rewrite"}

\* C24: after an interrupt during scanning or preprocessing no job is
\* submitted and no rewrite is started, and the process ends with exit
\* code 130.
C24_InterruptStopsPipeline == []InterruptedExit /\ [][InterruptedStep]_vars

\* C24 witness: the process ended with code 130 after an interrupt that
\* came when one of two jobs was submitted; the submitted job was done.
C24_Witness ==
    /\ pc = "interrupted"
    /\ ExitCode = 130
    /\ Len(tasks) = 1
    /\ total_jobs = 2
    /\ tasks[1].st = "done"

\* One step seen from the pool: it becomes shut down only when every
\* submitted job is done, and once the shutdown has begun (the main thread
\* is at the end of the with block, or the pool is shut down) the list of
\* submitted jobs does not grow.
PoolShutdownStep ==
    /\ (pool # "shutdown" /\ pool' = "shutdown") =>
            /\ \A i \in 1..Len(tasks) : tasks[i].st = "done"
            /\ tasks' = tasks
    /\ (pool = "shutdown" \/ pc \in {"shutdown", "int_shutdown"}) =>
            /\ Len(tasks') = Len(tasks)
            /\ pool' \in {pool, "shutdown"}

\* C22: the pool is shut down only after every submitted job has
\* completed, and no job is submitted after the shutdown has begun.
C22_ShutdownAfterAllJobs ==
    /\ [](pool = "shutdown" => \A i \in 1..Len(tasks) : tasks[i].st = "done")
    /\ [][PoolShutdownStep]_vars

\* C22 witness: a pool with two submitted jobs was shut down on the way
\* out of an interrupted run.
C22_Witness ==
    /\ pool = "shutdown"
    /\ pc = "interrupted"
    /\ Len(tasks) = 2
    /\ \A i \in 1..2 : tasks[i].st = "done"

\* C23: the image detector's preprocess never raises: a failed download
\* makes it return false, and every image of the job is attempted and gets
\* its own success marker.
C23_PreprocessNeverRaises ==
    img.pc \in {"postprocess", "done"} =>
        /\ img.job_result \in {"true", "false"}
        /\ \A i \in 1..Len(img.images) :
                img.images[i].success \in {"true", "false"}

\* What the code does give: a job whose downloads all got an answer ends
\* with true or false and marks every image.
PreprocessReturnsUnlessDownloadFails ==
    (img.pc \in {"postprocess", "done"} /\ img.job_result # "raised") =>
        \A i \in 1..Len(img.images) :
            img.images[i].success \in {"true", "false"}

\* C25: a second rewrite pass over the same TaggedLines leaves every
\* document the first pass rewrote with the content it had after the first
\* pass, the detectors returning a rewritten line unchanged.
C25_RewriteIdempotent ==
    pass.n = 2 =>
        \A f \in pass.updated : f \in DOMAIN fs /\ fs[f] = pass.fs1[f]

\* The image detector is such a detector: postprocess applied to the line
\* it returned gives that line.
ImageRewriteIdempotent ==
    img.pc = "done" => ImagePostprocessed(img.result, img.images) = img.result

\* C25 witness: the second pass has replaced a document that the first
\* pass had changed.
C25_Witness ==
    /\ pass.n = 2
    /\ pc = "done"
    /\ \E i \in 1..Len(post_log) :
            /\ post_log[i].outcome = "updated"
            /\ post_log[i].file_path \in pass.updated
            /\ fs[post_log[i].file_path] # OriginalLines(post_log[i].file_path)

\* The preprocessing phase of the run is over
PreprocessingOver == pc \in PostPcs \cup {"done"}

ModulesWithJobs == {m \in ModuleNames : jobs[m] # <<>>}

\* C26: in a dry run the preprocessing phase logs, for each detector that
\* holds jobs, "[detector] Processing N jobs", as a real run does.
C26_DryRunAnnouncesJobs ==
    (dry_run /\ PreprocessingOver) =>
        \A m \in ModulesWithJobs :
            [module |-> m, n |-> Len(jobs[m])] \in ProcessingLogged

\* What the code does give: a real run logs the line for each detector
\* that holds jobs, a dry run for none.
RealRunAnnouncesJobs ==
    PreprocessingOver =>
        ProcessingLogged =
            IF dry_run THEN {}
            ELSE {[module |-> m, n |-> Len(jobs[m])] : m \in ModulesWithJobs}

\* The line holds an image whose url starts with http:// or https://
HasExternalImage(line) == \E i \in 1..Len(line) : ~line[i].local

\* C27: the image detector's probe answers IGNORE for a line without
\* external image; with one it answers EXPAND in a document not named
\* index.md and TAG_WITH_PREPROCESS_AND_POSTPROCESS in one that is, so the
\* document a promotion creates never asks for EXPAND.
C27_ImageProbeClassifies ==
    img.pc \notin {"idle", "probe"} =>
        /\ ~HasExternalImage(img.line) => img.action = IGNORE
        /\ (HasExternalImage(img.line)
                /\ (img.file_path.stem # "index" \/ img.file_path.suffix # "md"))
            => img.action = EXPAND
        /\ (HasExternalImage(img.line)
                /\ img.file_path.stem = "index" /\ img.file_path.suffix = "md")
            => img.action = TAG_WITH_PREPROCESS_AND_POSTPROCESS
        /\ (\E p \in ProbeDocs : img.file_path = new_file_of(p))
            => img.action # EXPAND

\* C27 witness: in the document that the promotion of b.md creates, a
\* line with a local and an external image was tagged with one image.
C27_Witness ==
    /\ img.pc = "preprocess"
    /\ img.file_path = new_file_of(DocB)
    /\ img.action = TAG_WITH_PREPROCESS_AND_POSTPROCESS
    /\ Len(img.line) = 2
    /\ img.line[1].local
    /\ Len(img.images) = 1

\* Nothing was scanned, probed, run or rewritten
NothingDone ==
    /\ pop_log = <<>>
    /\ scan_log = <<>>
    /\ probe_memo = <<>>
    /\ probe_log = <<>>
    /\ expand_log = <<>>
    /\ tasks = <<>>
    /\ post_log = <<>>
    /\ post_calls = <<>>
    /\ rewrites = <<>>
    /\ fs = fs0

FailedOutcomes ==
    {"read_failed", "postprocess_failed", "write_failed", "replace_failed"}

\* This step records a promotion, a job or a rewrite that failed
FailureRecorded ==
    \/ /\ Len(expand_log') > Len(expand_log)
       /\ expand_log'[Len(expand_log')].outcome \in {"failed", "refused"}
    \/ failed' > failed
    \/ /\ Len(post_log') > Len(post_log)
       /\ post_log'[Len(post_log')].outcome \in FailedOutcomes

\* A step of main: without a valid detector it ends in the setup error,
\* and a step that records a failed promotion, job or rewrite does not end
\* the run with an error.
MainStep ==
    /\ (pc = "main" /\ (input_files = <<>>
                         \/ (cli.given /\ Expanded(cli.requested) = {})))
            => pc' = "setup_error"
    /\ FailureRecorded => ExitCodeOf(pc') \in {-1, 0}

\* A setup error has done nothing and gives a non-zero code; an empty
\* document list gives nothing else; a run that gets through its three
\* passes gives 0, and a code other than 0 comes from a setup error or
\* from a probe that raised.
MainExit ==
    /\ pc = "setup_error" => (ExitCode # 0 /\ ExitCode # -1 /\ NothingDone)
    /\ (pc # "main" /\ input_files = <<>>) => pc = "setup_error"
    /\ pc = "done" => ExitCode = 0
    /\ ExitCode \notin {-1, 0} =>
            \/ pc = "setup_error"
            \/ \E key \in DOMAIN probe_memo : probe_memo[key].action = RAISE

\* C28: with no document or no valid detector the process exits non-zero
\* before anything is scanned, probed, run or rewritten; a failed
\* promotion, job or rewrite leaves the exit code at 0.
C28_SetupErrorsOnly == []MainExit /\ [][MainStep]_vars

\* C28 witness: documents were found but --module named no known
\* detector, and main returned 1.
C28_Witness ==
    /\ pc = "setup_error"
    /\ ExitCode = 1
    /\ input_files # <<>>
    /\ cli.given
    /\ cli.requested = {"bogus"}

\* A run with a failed promotion, a failed job and a failed rewrite ended
\* with code 0.
FailuresExitZero ==
    /\ pc = "done"
    /\ ExitCode = 0
    /\ failed > 0
    /\ \E i \in 1..Len(expand_log) : expand_log[i].outcome = "failed"
    /\ \E i \in 1..Len(post_log) : post_log[i].outcome \in FailedOutcomes

\* One step of the scan seen from the lists: a probe step appends to the
\* lists of the probing detector what the answer asks for, built from the
\* document, line index and line in hand, and nothing else; the lists of
\* the other detectors do not change.
DispatchStep ==
    pc = "probe" =>
        LET m == Modules[cur.mi]
            line == cur.lines[cur.line_no + 1]
            key == <<m, cur.file_path, cur.line_no>>
            answered == RegexSearch(m, line) /\ pc' # "fatal"
            r == probe_memo'[key]
            job == [file_path |-> cur.file_path, line_no |-> cur.line_no,
                    line |-> line, module_name |-> m,
                    metadata |-> r.metadata]
            pp == [file_path |-> cur.file_path, line_no |-> cur.line_no,
                   line |-> line, metadata |-> r.metadata]
        IN /\ \A o \in ModuleNames \ {m} :
                /\ jobs'[o] = jobs[o]
                /\ postprocess_lines'[o] = postprocess_lines[o]
           /\ ~answered =>
                /\ jobs'[m] = jobs[m]
                /\ postprocess_lines'[m] = postprocess_lines[m]
           /\ answered =>
                /\ r.action \in {IGNORE, EXPAND} =>
                        /\ jobs'[m] = jobs[m]
                        /\ postprocess_lines'[m] = postprocess_lines[m]
                /\ r.action = TAG =>
                        /\ jobs'[m] = jobs[m]
                        /\ postprocess_lines'[m] =
                                Append(postprocess_lines[m], pp)
                /\ r.action = TAG_WITH_PREPROCESS_ONLY =>
                        /\ jobs'[m] = Append(jobs[m], job)
                        /\ postprocess_lines'[m] = postprocess_lines[m]
                /\ r.action = TAG_WITH_PREPROCESS_AND_POSTPROCESS =>
                        /\ jobs'[m] = Append(jobs[m], job)
                        /\ postprocess_lines'[m] =
                                Append(postprocess_lines[m], pp)
                /\ r.action = EXPAND => cur'.file_needs_expand
                /\ r.action # EXPAND =>
                        cur'.file_needs_expand = cur.file_needs_expand

\* C29: the dispatch on the probe result appends nothing for IGNORE, one
\* TaggedLine for TAG, one Job for TAG_WITH_PREPROCESS_ONLY, one Job and
\* one TaggedLine for TAG_WITH_PREPROCESS_AND_POSTPROCESS and nothing for
\* EXPAND, which marks the document; no other detector's list changes.
C29_DispatchAppendsExactly == [][DispatchStep]_vars

\* C29 witness: the scan is going on after the first detector got a Job
\* and a TaggedLine for the same line, and the second detector got
\* nothing.
C29_Witness ==
    /\ pc = "probe"
    /\ Len(jobs[Modules[1]]) = 1
    /\ Len(postprocess_lines[Modules[1]]) = 1
    /\ jobs[Modules[1]][1].line_no = postprocess_lines[Modules[1]][1].line_no
    /\ jobs[Modules[1]][1].file_path
            = postprocess_lines[Modules[1]][1].file_path
    /\ jobs[Modules[2]] = <<>>
    /\ postprocess_lines[Modules[2]] = <<>>

\* How often the detector m was given line k in the scan number scan
ProbeCalls(scan, m, k) ==
    Cardinality({i \in 1..Len(probe_log) :
                    /\ probe_log[i].scan = scan
                    /\ probe_log[i].module = m
                    /\ probe_log[i].line_no = k})

\* The pair (detector number mi, line k) comes before the pair the scan
\* loop is at
PairDone(mi, k) ==
    \/ pc \in {"expand", "purge", "requeue"}
    \/ pc = "probe" /\ (k < cur.line_no \/ (k = cur.line_no /\ mi < cur.mi))

\* While a document is scanned: every call of the scan is a call for this
\* document; a pair the loop has passed was probed once if its regex
\* matches and never otherwise; a pair still to come was not probed.
ScanProbesOnce ==
    pc \in {"probe", "expand", "purge", "requeue"} =>
        /\ \A i \in 1..Len(probe_log) :
                probe_log[i].scan = Len(pop_log) =>
                    /\ probe_log[i].file_path = cur.file_path
                    /\ probe_log[i].line_no \in 0..(Len(cur.lines) - 1)
        /\ \A mi \in 1..Len(Modules), k \in 0..(Len(cur.lines) - 1) :
                ProbeCalls(Len(pop_log), Modules[mi], k) =
                    IF PairDone(mi, k) /\ RegexSearch(Modules[mi], cur.lines[k + 1])
                    THEN 1 ELSE 0

\* A step with a promotion attempt is taken after the last pair of the
\* scan, and the scan does not come back to the loop or to the promotion.
PromotionAfterLastLine ==
    /\ expand_log' # expand_log =>
            /\ pc = "expand"
            /\ Len(expand_log') = Len(expand_log) + 1
            /\ pc' \in {"scan", "purge"}
    /\ pc \in {"purge", "requeue"} =>
            /\ expand_log' = expand_log
            /\ probe_log' = probe_log
            /\ pc' \in {"requeue", "scan"}
    /\ pc = "expand" => probe_log' = probe_log

C31_SharedMetadata ==
    img.pc = "done" =>
        /\ img.action = TAG_WITH_PREPROCESS_AND_POSTPROCESS
        /\ Len(img.read) = Len(img.images)
        /\ \A i \in 1..Len(img.images) :
                /\ img.read[i].success = img.images[i].success
                /\ img.read[i].local_filename = img.images[i].local_filename
                /\ img.read[i].url = img.probed[i].url
                /\ img.read[i].title = img.probed[i].title

\* C31 witness: preprocess saved one image and failed to save the other,
\* and postprocess read both markers and the file name.
C31_Witness ==
    /\ img.pc = "done"
    /\ Len(img.read) = 2
    /\ img.read[1].success = "true"
    /\ img.read[1].local_filename \in LocalNames
    /\ img.read[2].success = "false"
    /\ img.probed[1].success = "unset"

\* The positions at which a thread reads or writes _domain_locks or
\* _last_request_time
LkMapPcs == {"check", "create", "return", "rl_read", "stamp"}

\* C32: at most one lock is created per origin key, every job of an origin
\* gets that lock, and the maps of the pool are read and written only by
\* the thread that holds the guard.
C32_OneLockPerOrigin ==
    /\ \A d \in Hosts :
            Cardinality({i \in 1..Len(lk.created) : lk.created[i] = d}) <= 1
    /\ \A t \in LkThreads :
            /\ lk.th[t].lock # 0 =>
                    /\ lk.created[lk.th[t].lock] = lk.th[t].domain
                    /\ lk.th[t].lock = lk.locks[lk.th[t].domain]
            /\ lk.th[t].pc \in LkMapPcs => lk.guard = t
    /\ \A t, u \in LkThreads :
            (lk.th[t].lock # 0 /\ lk.th[u].lock # 0
                /\ lk.th[t].domain = lk.th[u].domain)
            => lk.th[t].lock = lk.th[u].lock

\* C32 witness: two threads running at the same time asked for the lock
\* of the same origin, unknown until then, and both got the one lock
\* created.
C32_Witness ==
    /\ Len(lk.th) >= 2
    /\ lk.th[1].domain = lk.th[2].domain
    /\ lk.th[1].pc = "acquire"
    /\ lk.th[2].pc = "acquire"
    /\ lk.th[1].lock = 1
    /\ lk.th[2].lock = 1
    /\ Len(lk.created) = 1

\* The work item i is held by a thread that waits: for the lock of its
\* origin, held by another work item, or for the end of a pacing interval
Waiting(i) ==
    \/ /\ tasks[i].st = "acquire"
       /\ tasks[i].domain \in DOMAIN domain_locks
       /\ domain_locks[tasks[i].domain] # 0
    \/ tasks[i].st = "sleep" /\ tasks[i].wake > now

\* No other job of the origin of i is in flight, and the pacing interval
\* of that origin is over
OriginIdle(i) ==
    /\ \A j \in Active : j # i => tasks[j].domain # tasks[i].domain
    /\ tasks[i].domain \in DOMAIN last_request_time =>
            now - last_request_time[tasks[i].domain] >= rate_limit_delay

\* C33: the oldest job in the queue, its origin idle, is taken by a thread
\* whenever fewer than max_workers jobs are held by threads that do not
\* wait for a lock or a pacing interval of another origin.
C33_NoCrossOriginDelay ==
    \A i \in TaskIds :
        (/\ tasks[i].st = "queued"
         /\ \A j \in TaskIds : j < i => tasks[j].st # "queued"
         /\ OriginIdle(i)
         /\ Cardinality({j \in Active : ~Waiting(j)}) < max_workers)
            => CanStart(i)

\* What the code does give: the oldest job in the queue is taken whenever
\* fewer than max_workers threads hold a job, waiting or not.
StartsWhenThreadFree ==
    \A i \in TaskIds :
        (/\ tasks[i].st = "queued"
         /\ \A j \in TaskIds : j < i => tasks[j].st # "queued"
         /\ Cardinality(Active) < max_workers)
            => CanStart(i)

\* The job i of an idle origin is in the queue behind threads that all
\* wait for another origin.
HeldBackByWaiters ==
    \E i \in TaskIds :
        /\ tasks[i].st = "queued"
        /\ OriginIdle(i)
        /\ InPreprocess = {}
        /\ Active # {}
        /\ \A j \in Active : Waiting(j)

\* The line index k (from 0) of the document f is tagged
TaggedIndex(f, k) == LineMap(f, k) # <<>>

\* The step that replaces a document gives it as many lines as were read
\* from it, each untagged index holding the line read; any other step
\* leaves the documents of the rewrite pass as they are.
RewriteStep ==
    pc \in RewritingPcs =>
        LET f == rw.file_path IN
        IF Len(post_log') > Len(post_log)
            /\ post_log'[Len(post_log')].outcome = "updated"
        THEN /\ f \in DOMAIN fs'
             /\ Len(fs'[f]) = Len(rw.lines)
             /\ \A k \in 1..Len(rw.lines) :
                    ~TaggedIndex(f, k - 1) => fs'[f][k] = rw.lines[k]
             /\ rw.lines = fs[f]
        ELSE f \in DOMAIN fs' /\ fs'[f] = fs[f]

\* C34: a rewrite keeps the number and the order of the lines of the
\* document and leaves every line whose index is not tagged as it was read;
\* only tagged indices may differ.
C34_UntaggedLinesKept == [][RewriteStep]_vars

\* C34 witness: a document of two lines was replaced; its untagged first
\* line is the line read and its tagged second line was rewritten.
C34_Witness ==
    \E f \in DOMAIN rewrites :
        /\ f \in DOMAIN fs
        /\ Len(fs[f]) = 2
        /\ ~TaggedIndex(f, 0)
        /\ TaggedIndex(f, 1)
        /\ fs[f][1] = OriginalLines(f)[1]
        /\ fs[f][2] # OriginalLines(f)[2]
        /\ \E i \in 1..Len(post_log) :
                post_log[i].file_path = f /\ post_log[i].outcome = "updated"

\* The Lock objects the thread t holds
LkHeldBy(t) == {id \in 1..Len(lk.held) : lk.held[id] = t}

\* A thread that waits for an origin lock holds neither an origin lock nor
\* the guard; a thread holds at most one origin lock, and the guard only
\* at the statements inside its with block, none of which waits.
LockOrder ==
    \A t \in LkThreads :
        /\ lk.th[t].pc = "acquire" => (LkHeldBy(t) = {} /\ lk.guard # t)
        /\ Cardinality(LkHeldBy(t)) <= 1
        /\ lk.guard = t => lk.th[t].pc \in LkMapPcs

AllJobsDone ==
    /\ lk.pool = "shutdown"
    /\ \A t \in LkThreads : lk.th[t].pc = "done"

\* C35: the preprocessing phase cannot deadlock: no thread waits for an
\* origin lock while it holds another origin lock or the guard, and, every
\* preprocess call ending, every submitted job completes and the pool
\* shuts down.
C35_NoDeadlock == []LockOrder /\ <>AllJobsDone

\* C35 witness: a pool of one thread was shut down after two jobs of the
\* same origin, the first of which raised.
C35_Witness ==
    /\ AllJobsDone
    /\ lk.workers = 1
    /\ Len(lk.th) >= 2
    /\ lk.th[1].domain = lk.th[2].domain
    /\ lk.th[1].raised
    /\ ~lk.th[2].raised

\* The worklist is empty and no document is being scanned, or a detector
\* raised and the exception ended the loop
ScanOver ==
    \/ pc = "scan" /\ files_to_process = <<>>
    \/ pc = "fatal"

\* Every path a promotion appended is named index.md, no document is
\* promoted twice, no path named index.md is promoted, and the paths taken
\* from the worklist are at most twice the input documents.
ScanBounded ==
    /\ \A n \in 1..Len(requeue_log) :
            requeue_log[n].stem = "index" /\ requeue_log[n].suffix = "md"
    /\ \A k \in 1..Len(promotions) :
            ~(promotions[k].old.stem = "index"
              /\ promotions[k].old.suffix = "md")
    /\ \A j, k \in 1..Len(promotions) :
            promotions[j].old = promotions[k].old => j = k
    /\ Len(requeue_log) <= Len(promotions)
    /\ Len(pop_log) <= Len(input_files) + Len(promotions)
    /\ Len(pop_log) <= 2 * Len(input_files)

\* C36: the scan loop ends for every input list and every detector
\* behaviour; each promotion appends a path named index.md, no document is
\* promoted more than once, and at most twice as many paths are scanned as
\* there are input documents.
C36_ScanTerminates == []ScanBounded /\ <>ScanOver

\* C36 witness: the loop ended after two promotions and four scans of a
\* list of two documents.
C36_Witness ==
    /\ ScanOver
    /\ pc = "scan"
    /\ Len(input_files) = 2
    /\ Len(promotions) = 2
    /\ Len(pop_log) = 4

\* A held origin lock is held by a job of that origin that is between
\* taking the lock and the end of its preprocess call: a job that ended,
\* by return or by an exception, holds no lock.
LockHeldInsideWith ==
    \A d \in DOMAIN domain_locks :
        domain_locks[d] # 0 =>
            /\ domain_locks[d] \in TaskIds
            /\ tasks[domain_locks[d]].domain = d
            /\ tasks[domain_locks[d]].st \in {"wait", "sleep", "running"}

\* The job i ends its preprocess call in this step
PreprocessEnds(i) == tasks[i].st = "running" /\ tasks'[i].st = "done"

\* A step in which a preprocess call ends releases the origin's lock, which
\* the job held, and leaves the timestamps alone when the call raised; a
\* step that changes the timestamps of a pool is the normal return of a
\* job that holds its origin's lock, and sets that origin's timestamp only
\* (the timestamps go away with the pool when it is shut down).
StampStep ==
    /\ \A i \in TaskIds :
            PreprocessEnds(i) =>
                /\ domain_locks[tasks[i].domain] = i
                /\ domain_locks'[tasks[i].domain] = 0
                /\ tasks'[i].result = "raised" =>
                        last_request_time' = last_request_time
    /\ (last_request_time' # last_request_time /\ pool' = pool) =>
            \E i \in TaskIds :
                /\ PreprocessEnds(i)
                /\ tasks'[i].result # "raised"
                /\ domain_locks[tasks[i].domain] = i
                /\ DOMAIN last_request_time' =
                        DOMAIN last_request_time \cup {tasks[i].domain}
                /\ last_request_time'[tasks[i].domain] = now
                /\ \A d \in DOMAIN last_request_time :
                        d # tasks[i].domain =>
                            last_request_time'[d] = last_request_time[d]

\* C37: a preprocess call that raises releases the origin's lock and leaves
\* the origin's timestamp unchanged; the timestamp is recorded only when
\* preprocess returns normally and only while the origin's lock is held.
C37_RaiseReleasesLock == []LockHeldInsideWith /\ [][StampStep]_vars

\* C37 witness: the first job raised, and the second job, of the same
\* origin, was called at the same instant, no pacing interval between
\* them, and returned.
C37_Witness ==
    /\ Len(tasks) >= 2
    /\ tasks[1].result = "raised"
    /\ tasks[2].domain = tasks[1].domain
    /\ tasks[2].st = "done"
    /\ tasks[2].result = "true"
    /\ \E m, n \in 1..Len(preprocess_log) :
            /\ preprocess_log[m].task = 1
            /\ preprocess_log[n].task = 2
            /\ preprocess_log[n].start = preprocess_log[m].start

\* The entries of list that reference another document than file_path
OfOtherDocuments(list, file_path) ==
    SelectSeq(list, LAMBDA e : e.file_path # file_path)

\* The entries of list that reference file_path
OfDocument(list, file_path) ==
    SelectSeq(list, LAMBDA e : e.file_path = file_path)

\* The purge of a promotion leaves, in every list of every detector, the
\* entries of the other documents as they were and in their order, removes
\* nothing else than entries of the old path, and leaves the worklist
\* alone; the step after it appends the new path to the worklist and
\* changes nothing else of it, nor any list.
PurgeFrame ==
    /\ pc = "purge" =>
            /\ \A m \in ModuleNames :
                    /\ OfOtherDocuments(jobs'[m], cur.file_path)
                            = OfOtherDocuments(jobs[m], cur.file_path)
                    /\ OfOtherDocuments(postprocess_lines'[m], cur.file_path)
                            = OfOtherDocuments(postprocess_lines[m],
                                               cur.file_path)
                    /\ Len(jobs[m]) - Len(jobs'[m])
                            = Len(OfDocument(jobs[m], cur.file_path))
                    /\ Len(postprocess_lines[m]) - Len(postprocess_lines'[m])
                            = Len(OfDocument(postprocess_lines[m],
                                             cur.file_path))
            /\ files_to_process' = files_to_process
    /\ pc = "requeue" =>
            /\ files_to_process' = files_to_process \o <<cur.new_file>>
            /\ jobs' = jobs
            /\ postprocess_lines' = postprocess_lines

\* C38: the purge of a successful promotion removes only the entries of
\* the old path; the Jobs and TaggedLines of every detector for other
\* documents stay in their lists in the same order, and the worklist
\* changes only by the new path appended.
C38_PurgeFrame == [][PurgeFrame]_vars

\* C38 witness: a promotion has purged the Job and the TaggedLine a
\* detector had recorded for the document, and that detector still holds a
\* Job and a TaggedLine, those of another document.
C38_Witness ==
    /\ pc = "requeue"
    /\ \E m \in ModuleNames :
            /\ jobs[m] # <<>>
            /\ postprocess_lines[m] # <<>>
            /\ \E key \in DOMAIN probe_memo :
                    /\ key[1] = m
                    /\ key[2] = cur.file_path
                    /\ probe_memo[key].action =
                            TAG_WITH_PREPROCESS_AND_POSTPROCESS
    /\ \A m \in ModuleNames :
            /\ OfDocument(jobs[m], cur.file_path) = <<>>
            /\ OfDocument(postprocess_lines[m], cur.file_path) = <<>>

\* The sequence p is the beginning of the sequence q
IsPrefix(p, q) == Len(p) <= Len(q) /\ SubSeq(q, 1, Len(p)) = p

\* In a dry run no path was appended to the worklist, no path was recorded
\* as expanded, no purge is under way, and the paths taken from the
\* worklist and those left in it are the input list; when the loop has
\* emptied the worklist it has scanned as many paths as the input holds.
DryScan ==
    dry_run =>
        /\ requeue_log = <<>>
        /\ expanded_files = {}
        /\ promotions = <<>>
        /\ pc \notin {"purge", "requeue"}
        /\ Popped \o files_to_process = input_files
        /\ (pc = "scan" /\ files_to_process = <<>>) =>
                /\ Len(pop_log) = Len(input_files)
                /\ processed_count = Len(input_files)

\* In a dry run a step of the scan removes no Job and no TaggedLine: every
\* list only grows at its end.
DryStep ==
    dry_run =>
        \A m \in ModuleNames :
            /\ IsPrefix(jobs[m], jobs'[m])
            /\ IsPrefix(postprocess_lines[m], postprocess_lines'[m])

\* C39: in a dry run the worklist is never extended and nothing is purged:
\* a requested promotion appends no path, records no expanded path and
\* removes no Job or TaggedLine, and the scans are as many as the input
\* documents.
C39_DryRunWorklistFixed == []DryScan /\ [][DryStep]_vars

\* C39 witness: a dry run ended its scan of two documents after reporting
\* the promotion of a document for which a detector holds a Job and a
\* TaggedLine.
C39_Witness ==
    /\ dry_run
    /\ pc = "scan"
    /\ files_to_process = <<>>
    /\ Len(input_files) = 2
    /\ \E n \in 1..Len(expand_log) :
            /\ expand_log[n].outcome = "intent"
            /\ \E m \in ModuleNames :
                    /\ OfDocument(jobs[m], expand_log[n].file_path) # <<>>
                    /\ OfDocument(postprocess_lines[m],
                                  expand_log[n].file_path) # <<>>

\* The step is the end of a call of expand_file that refused or failed
PromotionDeniedStep ==
    /\ Len(expand_log') = Len(expand_log) + 1
    /\ expand_log'[Len(expand_log')].outcome \in {"refused", "failed"}

\* A step in which a promotion is refused or fails leaves every list of
\* every detector and the worklist as they were, and ends the scan of the
\* document.
DeniedKeepsLists ==
    PromotionDeniedStep =>
        /\ jobs' = jobs
        /\ postprocess_lines' = postprocess_lines
        /\ files_to_process' = files_to_process
        /\ pc' = "scan"

\* The documents whose promotion was refused or failed and that no other
\* scan has moved
DeniedDocuments ==
    {expand_log[n].file_path : n \in {k \in 1..Len(expand_log) :
            expand_log[k].outcome \in {"refused", "failed"}}} \ expanded_files

\* For a document whose promotion was refused or failed: what the detectors
\* answered for its lines is in their lists under its path; in a real run,
\* once the pool is shut down each of its Jobs was executed once, the
\* rewrite pass iterates over it when it has TaggedLines, and a rewrite
\* that updated it made the postprocess call of each of its TaggedLines.
DeniedStillServed ==
    \A p \in DeniedDocuments :
        /\ \A key \in DOMAIN probe_memo :
                key[2] = p =>
                    /\ probe_memo[key].action \in
                            {TAG_WITH_PREPROCESS_ONLY,
                             TAG_WITH_PREPROCESS_AND_POSTPROCESS} =>
                        \E n \in 1..Len(jobs[key[1]]) :
                            /\ jobs[key[1]][n].file_path = p
                            /\ jobs[key[1]][n].line_no = key[3]
                    /\ probe_memo[key].action \in
                            {TAG, TAG_WITH_PREPROCESS_AND_POSTPROCESS} =>
                        \E n \in 1..Len(postprocess_lines[key[1]]) :
                            /\ postprocess_lines[key[1]][n].file_path = p
                            /\ postprocess_lines[key[1]][n].line_no = key[3]
        /\ (~dry_run /\ pc \in PostPcs) =>
                \A n \in 1..Len(AllJobs) :
                    AllJobs[n].entry.file_path = p =>
                        /\ n \in TaskIds
                        /\ tasks[n].job = AllJobs[n].entry
                        /\ tasks[n].st = "done"
                        /\ tasks[n].calls = 1
        /\ (~dry_run /\ pc \in PostPcs \ {"post"}) =>
                \A n \in 1..Len(AllLines) :
                    AllLines[n].entry.file_path = p =>
                        p \in Range(post_files)
        /\ (~dry_run /\ pc = "done") =>
                \A n \in 1..Len(AllLines) :
                    AllLines[n].entry.file_path = p =>
                        \E k \in 1..Len(post_log) :
                            /\ post_log[k].file_path = p
                            /\ post_log[k].outcome = "updated" =>
                                \E c \in 1..Len(post_calls) :
                                    /\ post_calls[c].file_path = p
                                    /\ post_calls[c].module
                                            = AllLines[n].module
                                    /\ post_calls[c].line_no
                                            = AllLines[n].entry.line_no

\* C40: a refused or failed promotion purges nothing: the Jobs and
\* TaggedLines recorded for the document in that scan stay in their lists,
\* the Jobs are executed by the pool and the TaggedLines applied by the
\* rewrite pass, under the unchanged path.
C40_DeniedPromotionKeepsWork == []DeniedStillServed /\ [][DeniedKeepsLists]_vars

\* C40 witness: a real run ended in which the promotion of a document
\* failed, its Job was executed and the document, still under its path,
\* was updated with the rewritten line.
C40_Witness ==
    /\ ~dry_run
    /\ pc = "done"
    /\ \E p \in DeniedDocuments :
            /\ \E n \in 1..Len(expand_log) :
                    /\ expand_log[n].file_path = p
                    /\ expand_log[n].outcome = "failed"
            /\ \E i \in TaskIds :
                    tasks[i].job.file_path = p /\ tasks[i].result = "true"
            /\ p \in DOMAIN rewrites
            /\ rewrites[p] # fs0[p]

====
